---- MODULE Spec2Model ----
(***************************************************************************)
(* Follow-mode coordination and media synchronization of the Live Share    *)
(* React media template.                                                   *)
(*                                                                         *)
(* The hooks under src/src/live-share-hooks (useTakeControl, usePresence,  *)
(* useMediaSession) and the components that call them (ContentTab,         *)
(* MediaPlayerContainer) are modelled from their code.  The two objects    *)
(* they drive, the follow-mode coordinator (useLiveFollowMode) and the     *)
(* media synchronizer (useMediaSynchronizer), are imported by the hooks    *)
(* and not part of the sources; they are modelled from spec.md sections    *)
(* 3, 4.2, 4.3 and 5.                                                      *)
(***************************************************************************)
EXTENDS Integers, Sequences, FiniteSets, TLC

\* ------------------------------------------------------------------ bounds
\* Largest number of replicated updates a client may have received but not
\* yet applied.
MaxInFlight == 2
\* Largest value of the shared clock, in seconds.
MaxClock == 2

\* ----------------------------------------------------------------- domains
Users == {"A", "B", "C"}
None == "none"
Roles == {"Organizer", "Presenter", "Attendee"}
MediaIds == {"vid1", "vid2"}
\* The media duration, in seconds, and the positions a seek may name: the
\* start and the end.
Duration == 3
Positions == {0, Duration}

VARIABLES
    allowed,        \* ACCEPT_PLAYBACK_CHANGES_FROM: the allowed roles
    roles,          \* roles[u]: the roles of user u
    initiator,      \* isShareInitiator: the share initiator, or None
    joined,         \* joined[u]: u's coordinator/synchronizer are initialized
    server,         \* the replicated values as sequenced by the substrate
    replica,        \* replica[u]: the replicated values as u has applied them
    inbox,          \* inbox[u]: sequenced updates u has not applied yet
    followSuspended,\* followSuspended[u]: the coordinator's local suspension
    suspended,      \* suspended[u]: the synchronizer's local suspension
    player,         \* player[u]: u's local media player
    mediaSessionStarted, \* mediaSessionStarted[u]: u's synchronizer exists
    now,            \* the shared clock
    hist,           \* log of the last hook callback (observation only)
    elig,           \* results of the two eligibility computations
    history,        \* take-control map: history[u] is u's last-in-control time
    users,          \* take-control map variant: allUsers of usePresence
    writes,         \* writes[u]: u's map writes not sequenced yet
    tokenFetch,     \* one run of getWithRetryForTokenRefresh
    provider,       \* LiveShareOdspProvider: its refs and state
    odspClient,     \* one run of LiveShareOdspClient.join
    registry        \* the shared-state registry and its state map

\* The follow-mode session.
sessionVars == <<allowed, roles, initiator, joined, server, replica, inbox,
                 followSuspended, suspended, player, mediaSessionStarted, now,
                 hist, elig>>

\* The rest of the page: the take-control map variant, the token fetch, the
\* provider, the client's join and the shared-state registry.
pageVars == <<history, users, writes, tokenFetch, provider, odspClient,
              registry>>

vars == <<allowed, roles, initiator, joined, server, replica, inbox,
          followSuspended, suspended, player, mediaSessionStarted, now, hist,
          elig, history, users, writes, tokenFetch, provider, odspClient,
          registry>>

\* ------------------------------------------------------------- data model
\* IFollowModeData.changed; "defined" is FALSE when the field is absent.
NoChange == [defined |-> FALSE, timestamp |-> 0, mediaPosition |-> 0]

Changed(timestamp, mediaPosition) ==
    [defined |-> TRUE, timestamp |-> timestamp, mediaPosition |-> mediaPosition]

\* IFollowModeData: the playback-intent payload each user publishes.
FollowData(mediaId, paused, changed) ==
    [mediaId |-> mediaId, paused |-> paused, changed |-> changed]

\* The initial value handed to useLiveFollowMode: no changed record, paused.
InitialData(mediaId) == FollowData(mediaId, TRUE, NoChange)

\* One presence record (FollowModePresenceUser): connection state, the
\* user's own follow target and the user's own FollowData.
PresenceUser(online, followingUserId, stateValue) ==
    [online |-> online, followingUserId |-> followingUserId,
     stateValue |-> stateValue]

Offline == PresenceUser(FALSE, None, InitialData(None))

\* The local media player element.
Player(src, paused, currentTime) ==
    [src |-> src, paused |-> paused, currentTime |-> currentTime]

NoPlayer == Player(None, TRUE, 0)

\* ---------------------------------------------------- replication substrate
\* A replicated update: either the presenter key or one presence record,
\* replaced whole (last write wins per key).
PresenterOp(u, p) ==
    [kind |-> "presenter", user |-> u, presenter |-> p, rec |-> Offline]

PresenceOp(u, rec) ==
    [kind |-> "presence", user |-> u, presenter |-> None, rec |-> rec]

Apply(st, op) ==
    IF op.kind = "presenter"
    THEN [st EXCEPT !.presenter = op.presenter]
    ELSE [st EXCEPT !.presence[op.user] = op.rec]

RECURSIVE ApplyAll(_, _)
ApplyAll(st, ops) ==
    IF ops = <<>> THEN st ELSE ApplyAll(Apply(st, Head(ops)), Tail(ops))

\* Room for n more updates in every connected client's inbox.
CanSend(n) == \A v \in Users : joined[v] => Len(inbox[v]) + n <= MaxInFlight

\* The substrate sequences the updates at once and queues them, in that one
\* order, for every connected client, the sender included: the sender sees
\* its own write only when it comes back.
Sequenced(ops) == ApplyAll(server, ops)

\* Queueing that lets a new update overtake the pending ones.
QueuedAhead(ops) ==
    [v \in Users |-> IF joined[v] THEN ops \o inbox[v] ELSE inbox[v]]

Queued(ops) == [v \in Users |-> IF joined[v] THEN inbox[v] \o ops ELSE inbox[v]]

\* Every update sequenced so far has been applied by every connected client.
Quiescent == \A v \in Users : inbox[v] = <<>>

\* --------------------------------------------------- follow-mode coordinator
\* Online users that u sees following v.
getUserFollowers(u, v) ==
    {w \in Users \ {v} :
        /\ replica[u].presence[w].online
        /\ replica[u].presence[w].followingUserId = v}

FollowState(type, followingUserId, value) ==
    [type |-> type, followingUserId |-> followingUserId, value |-> value]

Undefined == FollowState("undefined", None, InitialData(None))

\* The followingUserId of a client that presents: the hook looks up the user
\* named by state.followingUserId while the type is activePresenter and
\* announces "are in control" when that user is the local one, so the
\* coordinator names the presenter itself.
PresentingUserId(u) == u

\* state with the presenter test written without the local-user check.
stateAnyPresenter(u) ==
    LET r == replica[u]
        me == r.presence[u]
        p == r.presenter
    IN  IF ~joined[u] THEN Undefined
        ELSE IF p # None /\ r.presence[p].online
        THEN FollowState("activePresenter", u, me.stateValue)
        ELSE FollowState("local", None, me.stateValue)

\* state with a user's followers tested before the presenter key, and
\* reported as presenting.
stateFollowersFirst(u) ==
    LET r == replica[u]
        me == r.presence[u]
        p == r.presenter
    IN  IF ~joined[u] THEN Undefined
        ELSE IF getUserFollowers(u, u) # {}
        THEN FollowState("activePresenter", u, me.stateValue)
        ELSE IF p # None /\ r.presence[p].online
        THEN IF p = u
             THEN FollowState("activePresenter", u, me.stateValue)
             ELSE FollowState("followPresenter", p, r.presence[p].stateValue)
        ELSE FollowState("local", None, me.stateValue)

\* state with the presenter binding every other user, whatever follow target
\* the user chose.
statePresenterFirst(u) ==
    LET r == replica[u]
        me == r.presence[u]
        p == r.presenter
        f == me.followingUserId
    IN  IF ~joined[u] THEN Undefined
        ELSE IF p # None /\ r.presence[p].online
        THEN IF p = u
             THEN FollowState("activePresenter", u, me.stateValue)
             ELSE IF followSuspended[u]
             THEN FollowState("suspendFollowPresenter", p, me.stateValue)
             ELSE FollowState("followPresenter", p, r.presence[p].stateValue)
        ELSE IF f # None /\ f # u /\ r.presence[f].online
        THEN IF followSuspended[u]
             THEN FollowState("suspendFollowUser", f, me.stateValue)
             ELSE FollowState("followUser", f, r.presence[f].stateValue)
        ELSE IF getUserFollowers(u, u) # {}
        THEN FollowState("activeFollowers", None, me.stateValue)
        ELSE FollowState("local", None, me.stateValue)

\* state with no regard to who is connected: the follow target and the
\* presenter bind a user whether or not they are online.
stateIgnoringConnections(u) ==
    LET r == replica[u]
        me == r.presence[u]
        p == r.presenter
        f == me.followingUserId
    IN  IF ~joined[u] THEN Undefined
        ELSE IF f # None /\ f # u
        THEN IF followSuspended[u]
             THEN FollowState("suspendFollowUser", f, me.stateValue)
             ELSE FollowState("followUser", f, r.presence[f].stateValue)
        ELSE IF p # None
        THEN IF p = u
             THEN FollowState("activePresenter", u, me.stateValue)
             ELSE IF followSuspended[u]
             THEN FollowState("suspendFollowPresenter", p, me.stateValue)
             ELSE FollowState("followPresenter", p, r.presence[p].stateValue)
        ELSE IF getUserFollowers(u, u) # {}
        THEN FollowState("activeFollowers", None, me.stateValue)
        ELSE FollowState("local", None, me.stateValue)

\* state with the local suspension tested before the presenter key: a
\* suspended user that chose no follow target is reported as suspended from
\* the presenter whether or not anybody presents.
stateSuspendedFirst(u) ==
    LET r == replica[u]
        me == r.presence[u]
        p == r.presenter
        f == me.followingUserId
    IN  IF ~joined[u] THEN Undefined
        ELSE IF f # None /\ f # u /\ r.presence[f].online
        THEN IF followSuspended[u]
             THEN FollowState("suspendFollowUser", f, me.stateValue)
             ELSE FollowState("followUser", f, r.presence[f].stateValue)
        ELSE IF followSuspended[u]
        THEN FollowState("suspendFollowPresenter", p, me.stateValue)
        ELSE IF p # None /\ r.presence[p].online
        THEN IF p = u
             THEN FollowState("activePresenter", u, me.stateValue)
             ELSE FollowState("followPresenter", p, r.presence[p].stateValue)
        ELSE IF getUserFollowers(u, u) # {}
        THEN FollowState("activeFollowers", None, me.stateValue)
        ELSE FollowState("local", None, me.stateValue)

\* The FollowModeState client u derives from its replica and its local
\* suspension: a user that chose a follow target follows it; any other user
\* is bound by the presenter, if there is one; otherwise it is on its own.
state(u) ==
    LET r == replica[u]
        me == r.presence[u]
        p == r.presenter
        f == me.followingUserId
    IN  IF ~joined[u] THEN Undefined
        ELSE IF f # None /\ f # u /\ r.presence[f].online
        THEN IF followSuspended[u]
             THEN FollowState("suspendFollowUser", f, me.stateValue)
             ELSE FollowState("followUser", f, r.presence[f].stateValue)
        ELSE IF p # None /\ r.presence[p].online
        THEN IF p = u
             THEN FollowState("activePresenter", PresentingUserId(u),
                             me.stateValue)
             ELSE IF followSuspended[u]
             THEN FollowState("suspendFollowPresenter", p, me.stateValue)
             ELSE FollowState("followPresenter", p, r.presence[p].stateValue)
        ELSE IF getUserFollowers(u, u) # {}
        THEN FollowState("activeFollowers", None, me.stateValue)
        ELSE FollowState("local", None, me.stateValue)

FollowTypes == {"followPresenter", "followUser"}
SuspendTypes == {"suspendFollowPresenter", "suspendFollowUser"}

\* startPresenting(): request the presenter key for u.
startPresenting(u) == <<PresenterOp(u, u)>>

\* stopPresenting(): valid only from activePresenter / activeFollowers;
\* clears the presenter key.
stopPresentingOps(u) ==
    IF state(u).type \in {"activePresenter", "activeFollowers"}
    THEN <<PresenterOp(u, None)>>
    ELSE <<>>

\* update(data): publish u's own FollowData, rewriting u's whole record.
update(u, data) ==
    <<PresenceOp(u, [replica[u].presence[u] EXCEPT !.stateValue = data])>>

\* followUser(target): no-op when the target is the local user or unknown.
followUserOps(u, target) ==
    IF target = u \/ target \notin Users \/ ~replica[u].presence[target].online
    THEN <<>>
    ELSE <<PresenceOp(u, [replica[u].presence[u]
                            EXCEPT !.followingUserId = target])>>

\* stopFollowing() accepted from every type: whatever the caller's record
\* holds as its follow target is cleared.
stopFollowingAlways(u) ==
    <<PresenceOp(u, [replica[u].presence[u]
                       EXCEPT !.followingUserId = None])>>

\* stopFollowing(): valid only from followUser / suspendFollowUser.
stopFollowingOps(u) ==
    IF state(u).type \in {"followUser", "suspendFollowUser"}
    THEN <<PresenceOp(u, [replica[u].presence[u]
                            EXCEPT !.followingUserId = None])>>
    ELSE <<>>

\* beginSuspension() accepted from every type.
CanBeginSuspensionAlways(u) == joined[u]

\* beginSuspension() is valid from followPresenter / followUser only.
CanBeginSuspension(u) == state(u).type \in FollowTypes

\* endSuspension() reverses a suspension only.
CanEndSuspension(u) == state(u).type \in SuspendTypes

\* The user whose FollowData client u is bound to, None when u is its own
\* authority.
Authority(u) ==
    IF state(u).type \in FollowTypes \cup SuspendTypes
    THEN state(u).followingUserId
    ELSE None

\* The latest FollowData of u's authority that u has received.
AuthorityData(u) ==
    IF Authority(u) = None
    THEN InitialData(None)
    ELSE replica[u].presence[Authority(u)].stateValue

\* -------------------------------------------------------- media synchronizer
MsPerSecond == 1000
\* Largest position disagreement, in seconds, left alone by reconciliation.
DriftTolerance == 1

Clamp(x) == IF x < 0 THEN 0 ELSE IF x > Duration THEN Duration ELSE x

Abs(x) == IF x < 0 THEN -x ELSE x

\* The target position computed from the published position alone.
TargetPositionNoExtrapolation(data, t) == Clamp(data.changed.mediaPosition)

\* The target position extrapolated whether or not playback is paused.
TargetPositionExtrapolated(data, t) ==
    Clamp(data.changed.mediaPosition
          + (t - data.changed.timestamp) \div MsPerSecond)

\* The position a follower should be at, at shared-clock time t.
TargetPosition(data, t) ==
    IF data.paused
    THEN Clamp(data.changed.mediaPosition)
    ELSE Clamp(data.changed.mediaPosition
               + (t - data.changed.timestamp) \div MsPerSecond)

\* Reconciliation in the wrong order: position and paused state go to the
\* loaded track, and the track is switched last.
ReconcileTrackLast(pl, data, t) ==
    IF data.mediaId \notin MediaIds THEN pl
    ELSE LET target == TargetPosition(data, t)
             sought == IF /\ data.changed.defined
                          /\ Abs(pl.currentTime - target) > DriftTolerance
                       THEN [pl EXCEPT !.currentTime = target]
                       ELSE pl
             set == [sought EXCEPT !.paused = data.paused]
         IN  IF pl.src # data.mediaId
             THEN Player(data.mediaId, TRUE, 0)
             ELSE set

\* Reconciliation of a local player against a FollowData at time t: switch
\* track first (position 0, paused), seek when the drift exceeds the
\* tolerance, then take the paused state.
Reconcile(pl, data, t) ==
    IF data.mediaId \notin MediaIds THEN pl
    ELSE LET loaded == IF pl.src # data.mediaId
                       THEN Player(data.mediaId, TRUE, 0)
                       ELSE pl
             target == TargetPosition(data, t)
             sought == IF /\ data.changed.defined
                          /\ Abs(loaded.currentTime - target) > DriftTolerance
                       THEN [loaded EXCEPT !.currentTime = target]
                       ELSE loaded
         IN  [sought EXCEPT !.paused = data.paused]

\* Reconciliation that runs whether or not the synchronizer is suspended.
ReconciledAlways(u, pl, susp, auth, data) ==
    IF auth = None THEN pl ELSE Reconcile(pl, data, now)

\* Reconciliation that a suspension anywhere blocks for everybody.
ReconciledUnlessAnySuspended(u, pl, susp, auth, data) ==
    IF (\E w \in Users : suspended[w]) \/ auth = None
    THEN pl
    ELSE Reconcile(pl, data, now)

\* Reconciliation as it runs at client u: skipped entirely while u's
\* synchronizer is suspended or u is bound to nobody.
Reconciled(u, pl, susp, auth, data) ==
    IF susp \/ auth = None THEN pl ELSE Reconcile(pl, data, now)

\* A resynchronization that seeks to the target whatever the drift.
ResyncedExact(u) ==
    IF suspended[u] /\ Authority(u) # None /\ AuthorityData(u).mediaId \in MediaIds
    THEN Player(AuthorityData(u).mediaId, AuthorityData(u).paused,
                TargetPosition(AuthorityData(u), now))
    ELSE player[u]

\* The player after the synchronizer's endSuspension(): a suspended
\* synchronizer resynchronizes, any other is left as it is.
Resynced(u) ==
    IF suspended[u]
    THEN Reconciled(u, player[u], FALSE, Authority(u), AuthorityData(u))
    ELSE player[u]

\* The media element's own play(), pause() and currentTime setter.
PlayerPlay(pl) == IF pl.src = None THEN pl ELSE [pl EXCEPT !.paused = FALSE]

PlayerPause(pl) == IF pl.src = None THEN pl ELSE [pl EXCEPT !.paused = TRUE]

PlayerSeek(pl, t) ==
    IF pl.src = None THEN pl ELSE [pl EXCEPT !.currentTime = Clamp(t)]

\* One second of playback.
PlayerAdvance(pl) ==
    IF pl.src = None \/ pl.paused THEN pl
    ELSE [pl EXCEPT !.currentTime = Clamp(@ + 1)]

\* ------------------------------------------------------------------- hooks
\* usePresence: everyone is eligible when no role is required.
PresenceEligible(allowedRoles, hasUser, userRoles) ==
    IF allowedRoles = {} THEN TRUE
    ELSE IF ~hasUser THEN FALSE
    ELSE {role \in userRoles : role \in allowedRoles} # {}

\* useTakeControl: the same filter, without the empty-list case.
TakeControlEligible(allowedRoles, hasUser, userRoles) ==
    IF hasUser
    THEN {role \in userRoles : role \in allowedRoles} # {}
    ELSE FALSE

localUserIsEligiblePresenter(u) ==
    TakeControlEligible(allowed, joined[u], roles[u])

\* localUserIsPresenting that rules out the followers of a presenter only.
localUserIsPresentingUnlessPresented(u) ==
    IF state(u).type # "undefined"
    THEN state(u).type \notin {"followPresenter", "suspendFollowPresenter"}
    ELSE FALSE

localUserIsPresenting(u) ==
    IF state(u).type # "undefined"
    THEN state(u).type \in {"activePresenter", "activeFollowers", "local"}
    ELSE FALSE

\* takeControl()'s guards without the "already presenting" return.
TakeControlAllowedNoTypeCheck(u) ==
    /\ joined[u]
    /\ state(u).type # "undefined"
    /\ localUserIsEligiblePresenter(u)

\* takeControl()'s guards without the eligibility return.
TakeControlAllowedNoRoleCheck(u) ==
    /\ joined[u]
    /\ state(u).type # "undefined"
    /\ state(u).type # "activePresenter"

\* The guards of takeControl(): coordinator, local user and state defined,
\* not already the active presenter, and eligible.
TakeControlAllowed(u) ==
    /\ joined[u]
    /\ state(u).type # "undefined"
    /\ state(u).type # "activePresenter"
    /\ localUserIsEligiblePresenter(u)

\* The media item the page shows: the one the derived state names.
selectedMediaId(u) ==
    IF state(u).value.mediaId \in MediaIds THEN state(u).value.mediaId ELSE None

PlayerTime(u) == IF player[u].src = None THEN 0 ELSE player[u].currentTime

PlayerPaused(u) == IF player[u].src = None THEN TRUE ELSE player[u].paused

\* UserPositionAvatar: where client u draws user w on the timeline, in
\* milliseconds of media time (the component's percent times the duration):
\* the position of the user w follows, or of w itself, as published when
\* paused and moved on by the time elapsed since when playing, never past
\* the end.
UserPositionAvatar(u, w) ==
    LET user == replica[u].presence[w]
        followingUser == IF user.followingUserId # None
                         THEN replica[u].presence[user.followingUserId]
                         ELSE user
        paused == followingUser.stateValue.paused
        mediaPosition == followingUser.stateValue.changed.mediaPosition
        timestamp == followingUser.stateValue.changed.timestamp
        moved == now - timestamp + mediaPosition * MsPerSecond
    IN  IF paused THEN mediaPosition * MsPerSecond
        ELSE IF moved < Duration * MsPerSecond THEN moved
        ELSE Duration * MsPerSecond

\* ----------------------------------------------------------------- actions
EmptyShared == [presenter |-> None, presence |-> [v \in Users |-> Offline]]

\* Some client other than u derives activePresenter.
OtherPresents(u) ==
    \E v \in Users \ {u} : joined[v] /\ state(v).type = "activePresenter"

\* The last hook callback that ran: which, whose, the caller's derived type
\* and follow target and whether another client was presenting when it ran,
\* whether it issued a request or took effect, how many updates of its
\* authority the caller had received while its synchronizer was suspended,
\* and the caller's own effective callback, if any, that was the step just
\* before.
Call(op, u, issued) ==
    [op |-> op, user |-> u, type |-> state(u).type,
     following |-> state(u).followingUserId, held |-> OtherPresents(u),
     issued |-> issued, missed |-> hist.missed[u],
     after |-> IF hist.on = "steps" /\ hist.call.user = u /\ hist.call.issued
               THEN hist.call.op
               ELSE "none"]

\* The log after a callback ran; nothing is kept when logging is off.
Logged(op, u, issued) ==
    IF hist.on = "off" THEN hist ELSE [hist EXCEPT !.call = Call(op, u, issued)]

NoCall ==
    [op |-> "none", user |-> None, type |-> "undefined", following |-> None,
     held |-> FALSE, issued |-> FALSE, missed |-> 0, after |-> "none"]

\* The log after a step that is not a logged callback: when every step is
\* logged, the last callback is forgotten.
Unlogged == IF hist.on = "steps" THEN [hist EXCEPT !.call = NoCall] ELSE hist

\* Publish ops (possibly none) on behalf of a handler of client u.
Publish(ops) ==
    /\ CanSend(Len(ops))
    /\ server' = Sequenced(ops)
    /\ inbox' = Queued(ops)

\* A client connects: it announces its presence and starts from the values
\* sequenced so far.
Join(u) ==
    /\ ~joined[u]
    /\ CanSend(1)
    /\ LET op == PresenceOp(u, PresenceUser(TRUE, None, InitialData(None)))
       IN  /\ server' = Apply(server, op)
           /\ inbox' = Queued(<<op>>)
           /\ replica' = [replica EXCEPT ![u] = Apply(server, op)]
    /\ joined' = [joined EXCEPT ![u] = TRUE]
    /\ followSuspended' = [followSuspended EXCEPT ![u] = FALSE]
    /\ suspended' = [suspended EXCEPT ![u] = FALSE]
    /\ UNCHANGED <<pageVars, mediaSessionStarted, allowed, roles, initiator, now, elig>>
    /\ player' = [player EXCEPT ![u] =
                    Reconciled(u, NoPlayer, FALSE, Authority(u)', AuthorityData(u)')]
    /\ UNCHANGED hist

\* A client disconnects: its connection set becomes empty.
Leave(u) ==
    /\ joined[u]
    /\ CanSend(1)
    /\ LET op == PresenceOp(u, [server.presence[u] EXCEPT !.online = FALSE])
       IN  /\ server' = Apply(server, op)
           /\ inbox' = [v \in Users |->
                          IF v = u THEN <<>>
                          ELSE IF joined[v] THEN Append(inbox[v], op)
                          ELSE inbox[v]]
    /\ replica' = [replica EXCEPT ![u] = EmptyShared]
    /\ joined' = [joined EXCEPT ![u] = FALSE]
    /\ followSuspended' = [followSuspended EXCEPT ![u] = FALSE]
    /\ suspended' = [suspended EXCEPT ![u] = FALSE]
    /\ player' = [player EXCEPT ![u] = NoPlayer]
    /\ UNCHANGED <<pageVars, mediaSessionStarted, allowed, roles, initiator, now, elig>>
    /\ UNCHANGED hist

\* A client applies the next sequenced update; its synchronizer reconciles
\* when the update changed the authority it is bound to or that
\* authority's FollowData.
Deliver(u) ==
    /\ joined[u]
    /\ inbox[u] # <<>>
    /\ replica' = [replica EXCEPT ![u] = Apply(@, Head(inbox[u]))]
    /\ inbox' = [inbox EXCEPT ![u] = Tail(@)]
    /\ UNCHANGED <<pageVars, mediaSessionStarted, allowed, roles, initiator, joined, server,
                   followSuspended, suspended, now, elig>>
    /\ player' = [player EXCEPT ![u] =
                    IF \/ Authority(u)' # Authority(u)
                       \/ AuthorityData(u)' # AuthorityData(u)
                    THEN Reconciled(u, @, suspended[u],
                                    Authority(u)', AuthorityData(u)')
                    ELSE @]
    /\ hist' = IF /\ hist.on = "steps"
                  /\ suspended[u]
                  /\ Authority(u) # None
                  /\ AuthorityData(u)' # AuthorityData(u)
               THEN [Unlogged EXCEPT !.missed[u] = IF @ < 2 THEN @ + 1 ELSE @]
               ELSE Unlogged

\* takeControl(): issues startPresenting() when its guards pass, and
\* returns without effect otherwise.
takeControl(u) ==
    /\ Publish(IF TakeControlAllowed(u) THEN startPresenting(u) ELSE <<>>)
    /\ UNCHANGED <<pageVars, mediaSessionStarted, allowed, roles, initiator, joined, replica,
                   followSuspended, suspended, player, now, elig>>
    /\ hist' = Logged("takeControl", u, TakeControlAllowed(u))

\* The effect without its test of the type: the share initiator starts
\* presenting whatever its state is.
AutoStartPresentingAnyType(u) ==
    /\ joined[u]
    /\ state(u).type # "undefined"
    /\ initiator = u
    /\ Publish(startPresenting(u))
    /\ UNCHANGED <<pageVars, mediaSessionStarted, allowed, roles, initiator, joined, replica,
                   followSuspended, suspended, player, now, elig>>
    /\ hist' = Logged("autoStart", u, TRUE)

\* The effect that starts presenting when nobody is in control and the
\* local user is the share initiator.  ContentTab passes isShareInitiator =
\* false; the meeting stage passes the share status, as SpecInitiator does.
AutoStartPresenting(u) ==
    /\ joined[u]
    /\ state(u).type # "undefined"
    /\ initiator = u
    /\ state(u).type = "local"
    /\ Publish(startPresenting(u))
    /\ UNCHANGED <<pageVars, mediaSessionStarted, allowed, roles, initiator, joined, replica,
                   followSuspended, suspended, player, now, elig>>
    /\ hist' = Logged("autoStart", u, TRUE)

\* The STOP button of the active presenter, or any call of stopPresenting().
stopPresenting(u) ==
    /\ joined[u]
    /\ Publish(stopPresentingOps(u))
    /\ UNCHANGED <<pageVars, mediaSessionStarted, allowed, roles, initiator, joined, replica,
                   followSuspended, suspended, player, now, elig>>
    /\ hist' = Logged("stopPresenting", u, stopPresentingOps(u) # <<>>)

\* The avatars client u shows on the timeline: the other users that are
\* online, do not follow u, are not the user u's state follows, and do not
\* follow the user that u follows.
AvatarShown(u, w) ==
    LET user == replica[u].presence[w]
        localUser == replica[u].presence[u]
    IN  /\ w # u
        /\ user.online
        /\ user.followingUserId # u
        /\ w # state(u).followingUserId
        /\ IF localUser.followingUserId # None \/ user.followingUserId # None
           THEN localUser.followingUserId # user.followingUserId
           ELSE TRUE

\* A click on the avatar of user w: follow w's own target if it has one,
\* else w, then publish w's FollowData as the local user's.
followUser(u, w) ==
    /\ joined[u]
    /\ AvatarShown(u, w)
    /\ LET target == IF replica[u].presence[w].followingUserId # None
                     THEN replica[u].presence[w].followingUserId
                     ELSE w
           follow == followUserOps(u, target)
           rec == IF follow = <<>> THEN replica[u].presence[u] ELSE follow[1].rec
           adopt == <<PresenceOp(u, [rec EXCEPT !.stateValue =
                                        replica[u].presence[w].stateValue])>>
       IN  /\ Publish(follow \o adopt)
           /\ hist' = Logged("followUser", u, follow # <<>>)
           /\ followSuspended' = [followSuspended EXCEPT ![u] =
                                    IF follow = <<>> THEN @ ELSE FALSE]
    /\ UNCHANGED <<pageVars, mediaSessionStarted, allowed, roles, initiator, joined, replica,
                   suspended, player, now, elig>>

\* The STOP button of a follower, or any call of stopFollowing().
stopFollowing(u) ==
    /\ joined[u]
    /\ Publish(stopFollowingOps(u))
    /\ followSuspended' = [followSuspended EXCEPT ![u] =
                             IF stopFollowingOps(u) = <<>> THEN @ ELSE FALSE]
    /\ UNCHANGED <<pageVars, mediaSessionStarted, allowed, roles, initiator, joined, replica,
                   suspended, player, now, elig>>
    /\ hist' = Logged("stopFollowing", u, stopFollowingOps(u) # <<>>)

\* The clock has moved on since the last published timestamp: gestures are
\* further apart than the clock's resolution.
FreshClock ==
    \A v \in Users : server.presence[v].stateValue.changed.timestamp < now

\* updateFollowState(...) with the media and the paused flag alone, as the
\* media list's selection sends it: no changed record.
GestureUnstamped(u, paused, mediaPosition) ==
    update(u, FollowData(selectedMediaId(u), paused, NoChange))

\* updateFollowState(...) of a gesture: the caller's own FollowData.
Gesture(u, paused, mediaPosition) ==
    update(u, FollowData(selectedMediaId(u), paused, Changed(now, mediaPosition)))

\* The synchronizer's suspension after a gesture of u: begun by a user who
\* does not present; there is nothing to suspend while u has no
\* synchronizer.
AfterGesture(u, susp) ==
    IF localUserIsPresenting(u) \/ ~mediaSessionStarted[u] THEN susp ELSE TRUE

\* The players a gesture of u can leave, "acted" being the player after the
\* gesture.  While u has no synchronizer a presenting user's gesture goes
\* to mediaSynchronizer?.play() and the like, which do nothing; any other
\* user's goes to beginSuspension() of a synchronizer that does not exist
\* and then to the player: the player is acted on unless that call threw.
GesturePlayers(u, acted) ==
    IF mediaSessionStarted[u] THEN {acted}
    ELSE IF localUserIsPresenting(u) THEN {player[u]}
    ELSE {player[u], acted}

\* viewOnly as useMediaSession hands it to the synchronizer.
viewOnly(u) == ~localUserIsPresenting(u)

\* A gesture that reaches the synchronizer's group operation whoever makes
\* it.
SynchronizerCallAlways(op, u) == op

\* The group operation of the synchronizer a gesture of u invokes: the one
\* of the gesture when u presents and has a synchronizer, none otherwise (a
\* user that does not present acts on its own player).
SynchronizerCall(op, u) ==
    IF localUserIsPresenting(u) /\ mediaSessionStarted[u] THEN op ELSE "none"

\* The log after a gesture: which group operation it invoked, when the
\* "gestures" are logged.
Gestured(op, u) ==
    IF hist.on = "gestures"
    THEN [hist EXCEPT !.call = Call(SynchronizerCall(op, u), u, TRUE)]
    ELSE Unlogged

\* play(): publish the caller's FollowData; a presenting user plays through
\* the synchronizer, any other begins the synchronizer's suspension if
\* there is none and plays its own player.
play(u) ==
    /\ joined[u]
    /\ player[u].src # None
    /\ FreshClock
    /\ Publish(Gesture(u, FALSE, PlayerTime(u)))
    /\ suspended' = [suspended EXCEPT ![u] = AfterGesture(u, @)]
    /\ \E pl \in GesturePlayers(u, PlayerPlay(player[u])) :
          player' = [player EXCEPT ![u] = pl]
    /\ hist' = Gestured("play", u)
    /\ UNCHANGED <<pageVars, mediaSessionStarted, allowed, roles, initiator, joined, replica,
                   followSuspended, now, elig>>

pause(u) ==
    /\ joined[u]
    /\ player[u].src # None
    /\ FreshClock
    /\ Publish(Gesture(u, TRUE, PlayerTime(u)))
    /\ suspended' = [suspended EXCEPT ![u] = AfterGesture(u, @)]
    /\ \E pl \in GesturePlayers(u, PlayerPause(player[u])) :
          player' = [player EXCEPT ![u] = pl]
    /\ hist' = Gestured("pause", u)
    /\ UNCHANGED <<pageVars, mediaSessionStarted, allowed, roles, initiator, joined, replica,
                   followSuspended, now, elig>>

seekTo(u, timestamp) ==
    /\ joined[u]
    /\ player[u].src # None
    /\ FreshClock
    /\ Publish(Gesture(u, PlayerPaused(u), timestamp))
    /\ suspended' = [suspended EXCEPT ![u] = AfterGesture(u, @)]
    /\ \E pl \in GesturePlayers(u, PlayerSeek(player[u], timestamp)) :
          player' = [player EXCEPT ![u] = pl]
    /\ hist' = Gestured("seekTo", u)
    /\ UNCHANGED <<pageVars, mediaSessionStarted, allowed, roles, initiator, joined, replica,
                   followSuspended, now, elig>>

\* setTrack(trackId): returns at once unless the caller presents; a
\* presenting caller publishes "paused at 0" and loads the track.
setTrack(u, trackId) ==
    /\ joined[u]
    /\ player[u].src # None
    /\ FreshClock
    /\ IF localUserIsPresenting(u)
       THEN /\ Publish(Gesture(u, TRUE, 0))
            /\ player' = [player EXCEPT ![u] =
                            IF mediaSessionStarted[u]
                            THEN Player(trackId, TRUE, 0)
                            ELSE @]
       ELSE UNCHANGED <<server, inbox, player>>
    /\ hist' = Gestured("setTrack", u)
    /\ UNCHANGED <<pageVars, mediaSessionStarted, allowed, roles, initiator, joined, replica,
                   followSuspended, suspended, now, elig>>

\* A media card's "Open": shown while no media is selected, it publishes the
\* chosen media, not paused, with no changed record.
selectMedia(u, id) ==
    /\ joined[u]
    /\ selectedMediaId(u) = None
    /\ Publish(update(u, FollowData(id, FALSE, NoChange)))
    /\ hist' = Unlogged
    /\ UNCHANGED <<pageVars, mediaSessionStarted, allowed, roles, initiator, joined, replica,
                   followSuspended, suspended, player, now, elig>>

\* The effect that sets the media player up: once a media is selected and
\* no player exists, a player is created on the selected media.
setPlayer(u) ==
    /\ joined[u]
    /\ player[u].src = None
    /\ selectedMediaId(u) # None
    /\ player' = [player EXCEPT ![u] = Player(selectedMediaId(u), TRUE, 0)]
    /\ hist' = Unlogged
    /\ UNCHANGED <<pageVars, mediaSessionStarted, allowed, roles, initiator, joined, server, replica, inbox,
                   followSuspended, suspended, now, elig>>

\* endSuspension() as useMediaSession returns it and the FOLLOW / RESUME
\* buttons call it: the synchronizer's.
endSuspension(u) ==
    /\ joined[u]
    /\ suspended' = [suspended EXCEPT ![u] = FALSE]
    /\ player' = [player EXCEPT ![u] = Resynced(u)]
    /\ hist' = [Logged("endSuspension", u, suspended[u])
                  EXCEPT !.missed[u] = 0]
    /\ UNCHANGED <<pageVars, mediaSessionStarted, allowed, roles, initiator, joined, server, replica, inbox,
                   followSuspended, now, elig>>

\* beginSuspension() of the synchronizer, as useMediaSession obtains it.
mediaSynchronizerBeginSuspension(u) ==
    /\ joined[u]
    /\ suspended' = [suspended EXCEPT ![u] = TRUE]
    /\ hist' = Logged("mediaSynchronizerBeginSuspension", u, ~suspended[u])
    /\ UNCHANGED <<pageVars, mediaSessionStarted, allowed, roles, initiator, joined, server, replica, inbox,
                   followSuspended, player, now, elig>>

\* beginSuspension() as useTakeControl returns it: the coordinator's.
liveFollowModeBeginSuspension(u) ==
    /\ joined[u]
    /\ followSuspended' = [followSuspended EXCEPT ![u] =
                             IF CanBeginSuspension(u) THEN TRUE ELSE @]
    /\ hist' = Logged("beginSuspension", u, CanBeginSuspension(u))
    /\ UNCHANGED <<pageVars, mediaSessionStarted, allowed, roles, initiator, joined, server, replica, inbox,
                   suspended, player, now, elig>>

\* endSuspension() as useTakeControl returns it: the coordinator's.
liveFollowModeEndSuspension(u) ==
    /\ joined[u]
    /\ followSuspended' = [followSuspended EXCEPT ![u] =
                             IF CanEndSuspension(u) THEN FALSE ELSE @]
    /\ hist' = Logged("liveFollowModeEndSuspension", u, CanEndSuspension(u))
    /\ UNCHANGED <<pageVars, mediaSessionStarted, allowed, roles, initiator, joined, server, replica, inbox,
                   suspended, player, now, elig>>

\* useMediaSynchronizer resolves: client u has its synchronizer.
mediaSessionStart(u) ==
    /\ joined[u]
    /\ ~mediaSessionStarted[u]
    /\ mediaSessionStarted' = [mediaSessionStarted EXCEPT ![u] = TRUE]
    /\ hist' = Unlogged
    /\ UNCHANGED <<pageVars, allowed, roles, initiator, joined, server, replica, inbox,
                   followSuspended, suspended, player, now, elig>>

\* The shared clock advances by a second, and so does every playing player.
Tick ==
    /\ now < MaxClock * MsPerSecond
    /\ now' = now + MsPerSecond
    /\ player' = [u \in Users |-> PlayerAdvance(player[u])]
    /\ hist' = Unlogged
    /\ UNCHANGED <<pageVars, mediaSessionStarted, allowed, roles, initiator, joined, server, replica, inbox,
                   followSuspended, suspended, elig>>

\* A render of the hooks of client u: both eligibility computations.
RenderHooks(u) ==
    /\ ~elig[u].done
    /\ elig' = [elig EXCEPT ![u] =
                  [presence |-> PresenceEligible(allowed, joined[u], roles[u]),
                   takeControl |-> localUserIsEligiblePresenter(u),
                   done |-> TRUE]]
    /\ UNCHANGED <<pageVars, mediaSessionStarted, allowed, roles, initiator, joined, server, replica, inbox,
                   followSuspended, suspended, player, now, hist>>

\* ------------------------------------------------- take-control map variant
\* joinedTimestamp values of the listed users: earlier than the clock's first
\* reading.
JoinTimes == {100, 200}

\* Most writes of one user to the take-control map awaiting sequencing.
MaxPending == 1

\* history.get of a user without an entry: undefined.
NoEntry == -1

\* `x ?? 0`.
OrZero(x) == IF x = NoEntry THEN 0 ELSE x

\* The comparator of mappedUsers.sort with the timestamps ascending.
compareAscending(h, a, b) ==
    IF h[a.userId] = h[b.userId]
    THEN a.joinedTimestamp - b.joinedTimestamp
    ELSE OrZero(h[a.userId]) - OrZero(h[b.userId])

\* The comparator of mappedUsers.sort, h being the map: equal
\* lastInControlTimestamp (both undefined included) sorts by joinedTimestamp
\* ascending, anything else by lastInControlTimestamp descending.
compare(h, a, b) ==
    IF h[a.userId] = h[b.userId]
    THEN a.joinedTimestamp - b.joinedTimestamp
    ELSE OrZero(h[b.userId]) - OrZero(h[a.userId])

\* Array.prototype.sort is stable: x, which came after the elements of
\* sorted, goes before the first of them that sorts after it.
RECURSIVE InsertSorted(_, _, _)
InsertSorted(h, x, sorted) ==
    IF sorted = <<>> THEN <<x>>
    ELSE IF compare(h, Head(sorted), x) <= 0
    THEN <<Head(sorted)>> \o InsertSorted(h, x, Tail(sorted))
    ELSE <<x>> \o sorted

RECURSIVE SortUsers(_, _)
SortUsers(h, list) ==
    IF list = <<>> THEN <<>>
    ELSE InsertSorted(h, list[Len(list)],
                      SortUsers(h, SubSeq(list, 1, Len(list) - 1)))

NoUser == [userId |-> None, state |-> "offline", joinedTimestamp |-> 0]

\* presentingUser: mappedUsers[0] after the sort, undefined for no users.
presentingUser ==
    IF users = <<>> THEN NoUser ELSE SortUsers(history, users)[1]

\* The users of the list.
Listed == {users[i].userId : i \in DOMAIN users}

\* The listed users whose client is running.
Online == {users[i].userId : i \in {k \in DOMAIN users : users[k].state = "online"}}

\* localUserIsPresenting of the map variant, at the client of user u.
localUserIsPresentingByMap(u) ==
    IF presentingUser.userId = None \/ u \notin Listed THEN FALSE
    ELSE u = presentingUser.userId

\* takeControl() of the map variant: an eligible user writes the clock's
\* reading under its own id; the write is sequenced later.
takeControlByMap(u) ==
    /\ u \in Online
    /\ Len(writes[u]) < MaxPending
    /\ writes' = [writes EXCEPT ![u] =
                    IF PresenceEligible(allowed, TRUE, roles[u])
                    THEN Append(@, now)
                    ELSE @]
    /\ UNCHANGED <<sessionVars, history, users, tokenFetch, provider,
                   odspClient, registry>>

\* The substrate sequences u's oldest write: it becomes the map's entry on
\* every client.
ApplySet(u) ==
    /\ writes[u] # <<>>
    /\ history' = [history EXCEPT ![u] = Head(writes[u])]
    /\ writes' = [writes EXCEPT ![u] = Tail(@)]
    /\ UNCHANGED <<sessionVars, users, tokenFetch, provider, odspClient,
                   registry>>

\* The list without user u.
RECURSIVE WithoutUser(_, _)
WithoutUser(list, u) ==
    IF list = <<>> THEN <<>>
    ELSE IF Head(list).userId = u THEN WithoutUser(Tail(list), u)
    ELSE <<Head(list)>> \o WithoutUser(Tail(list), u)

\* User u's last connection closes: its record is marked offline and stays
\* in the list, or it is removed from the list.
goOffline(u, removed) ==
    /\ u \in Online
    /\ users' = IF removed THEN WithoutUser(users, u)
                ELSE [i \in DOMAIN users |->
                        IF users[i].userId = u
                        THEN [users[i] EXCEPT !.state = "offline"]
                        ELSE users[i]]
    /\ UNCHANGED <<sessionVars, history, writes, tokenFetch, provider,
                   odspClient, registry>>

MapIdle ==
    /\ history = [u \in Users |-> NoEntry]
    /\ users = <<>>
    /\ writes = [u \in Users |-> <<>>]

\* --------------------------------------------- getWithRetryForTokenRefresh
\* errorType values: the three the switch names and one it does not.
ErrorTypes ==
    {"authorizationError", "incorrectServerResponse", "fetchTokenError",
     "genericNetworkError"}

\* An error object: its errorType, whether it carries
\* getWithRetryForTokenRefreshRepeat = true, its claims and tenantId.
ErrorObject(errorType, repeat, claims, tenantId) ==
    [errorType |-> errorType, repeat |-> repeat, claims |-> claims,
     tenantId |-> tenantId]

NoError == ErrorObject(None, FALSE, None, None)

\* A rejection with null or undefined, and what reading its errorType throws.
Nullish == ErrorObject("nullish", FALSE, None, None)
TypeError == ErrorObject("TypeError", FALSE, None, None)

Errors ==
    {ErrorObject(t, r, c, n) :
        t \in ErrorTypes, r \in BOOLEAN, c \in {None, "claims"},
        n \in {None, "tenant"}} \cup {Nullish}

\* How one call of get ends: its promise resolves, its promise rejects, or
\* get throws before returning a promise.
Outcomes ==
    {[kind |-> "resolved", error |-> NoError]}
       \cup {[kind |-> k, error |-> e] : k \in {"rejected", "thrown"}, e \in Errors}

\* TokenFetchOptionsEx.
TokenFetchOptions(refresh, previousError, claims, tenantId) ==
    [refresh |-> refresh, previousError |-> previousError, claims |-> claims,
     tenantId |-> tenantId]

\* The catch handler retries whatever the error is.
retryOptionsAlways(e) ==
    IF e.errorType = "authorizationError"
    THEN <<TokenFetchOptions(TRUE, e, e.claims, e.tenantId)>>
    ELSE <<TokenFetchOptions(TRUE, e, None, None)>>

\* The catch handler's switch: the options of the second call, or no call.
retryOptions(e) ==
    IF e.errorType = "authorizationError"
    THEN <<TokenFetchOptions(TRUE, e, e.claims, e.tenantId)>>
    ELSE IF e.errorType \in {"incorrectServerResponse", "fetchTokenError"}
    THEN <<TokenFetchOptions(TRUE, e, None, None)>>
    ELSE IF e.repeat
    THEN <<TokenFetchOptions(TRUE, e, None, None)>>
    ELSE <<>>

\* The function has not been called.
FetchNotCalled ==
    [pc |-> "idle", calls |-> <<>>, first |-> [kind |-> None, error |-> NoError],
     result |-> [kind |-> None, error |-> NoError]]

\* getWithRetryForTokenRefresh(get): get({ refresh: false }) is called.
getWithRetryForTokenRefresh ==
    /\ tokenFetch.pc = "idle"
    /\ tokenFetch' = [tokenFetch EXCEPT
                        !.pc = "first",
                        !.calls = <<TokenFetchOptions(FALSE, NoError, None, None)>>]
    /\ UNCHANGED <<sessionVars, history, users, writes, provider, odspClient,
                   registry>>

\* The first call ends with outcome o. A resolution is the result; a throw
\* happens before .catch is attached and is the result; a rejection runs
\* the catch handler, which reads e.errorType (a TypeError for null),
\* calls get again or rethrows.
firstGetSettles(o) ==
    /\ tokenFetch.pc = "first"
    /\ tokenFetch' =
          IF o.kind = "resolved"
          THEN [tokenFetch EXCEPT !.pc = "done", !.first = o, !.result = o]
          ELSE IF o.kind = "thrown"
          THEN [tokenFetch EXCEPT !.pc = "done", !.first = o,
                   !.result = [kind |-> "rejected", error |-> o.error]]
          ELSE IF o.error = Nullish
          THEN [tokenFetch EXCEPT !.pc = "done", !.first = o,
                   !.result = [kind |-> "rejected", error |-> TypeError]]
          ELSE IF retryOptions(o.error) # <<>>
          THEN [tokenFetch EXCEPT !.pc = "second", !.first = o,
                   !.calls = @ \o retryOptions(o.error)]
          ELSE [tokenFetch EXCEPT !.pc = "done", !.first = o, !.result = o]
    /\ UNCHANGED <<sessionVars, history, users, writes, provider, odspClient,
                   registry>>

\* The second call ends with outcome o, which is the result: whatever it
\* throws or rejects with rejects the returned promise.
secondGetSettles(o) ==
    /\ tokenFetch.pc = "second"
    /\ tokenFetch' =
          [tokenFetch EXCEPT
             !.pc = "done",
             !.result = IF o.kind = "resolved" THEN o
                        ELSE [kind |-> "rejected", error |-> o.error]]
    /\ UNCHANGED <<sessionVars, history, users, writes, provider, odspClient,
                   registry>>

\* ---------------------------------------------------- LiveShareOdspProvider
\* Most runs of the load effect.
MaxEffectRuns == 6

\* What clientRef.current.join can reject with: an Error, or something that
\* is not an Error.
JoinErrors == {"Error: join failed"}
JoinNonErrors == {"a string", "undefined"}

\* The Error the effect makes of a rejection that is not one.
UnknownJoinError ==
    "Error: LiveShareProvider: An unknown error occurred while joining container."

\* `error instanceof Error`.
InstanceOfError(x) == x \in JoinErrors \cup {UnknownJoinError}

\* ILiveShareOdspJoinResults, by their created flag.
JoinResults == {"results (created)", "results (loaded)"}

\* The effect's early return without the startedRef test.
effectReturnsWithoutRef(p) ==
    p.results # None \/ ~p.joinOnLoad

\* The effect's early return.
effectReturns(p) ==
    p.results # None \/ p.startedRef \/ ~p.joinOnLoad

\* The provider after its first render.
ProviderMounted(joinOnLoad) ==
    [joinOnLoad |-> joinOnLoad, startedRef |-> FALSE, results |-> None,
     joinError |-> None, pending |-> 0, joinCalls |-> 0, rejected |-> None,
     effectRuns |-> 0, settledAtRun |-> 0]

\* joined of the context value: !!results?.container.
ProviderJoined == provider.results # None

\* One run of the load effect: on mount, again on mount under StrictMode,
\* and after every change of results or of the props. Unless it returns
\* early it calls join, which sets startedRef before anything else.
loadEffect ==
    /\ provider.effectRuns < MaxEffectRuns
    /\ provider' =
          IF effectReturns(provider)
          THEN [provider EXCEPT !.effectRuns = @ + 1]
          ELSE [provider EXCEPT !.effectRuns = @ + 1,
                                !.startedRef = TRUE,
                                !.pending = @ + 1,
                                !.joinCalls = @ + 1]
    /\ UNCHANGED <<sessionVars, history, users, writes, tokenFetch, odspClient,
                   registry>>

\* A render with another value of the joinOnLoad prop.
setJoinOnLoad(b) ==
    /\ provider.joinOnLoad # b
    /\ provider' = [provider EXCEPT !.joinOnLoad = b]
    /\ UNCHANGED <<sessionVars, history, users, writes, tokenFetch, odspClient,
                   registry>>

\* clientRef.current.join resolves: setResults(results).
joinResolves(r) ==
    /\ provider.pending > 0
    /\ provider' = [provider EXCEPT !.pending = @ - 1,
                                    !.results = r,
                                    !.settledAtRun = provider.effectRuns]
    /\ UNCHANGED <<sessionVars, history, users, writes, tokenFetch, odspClient,
                   registry>>

\* clientRef.current.join rejects with e: the effect's catch handler sets
\* joinError to e if it is an Error and to a new Error otherwise.
joinRejects(e) ==
    /\ provider.pending > 0
    /\ provider' = [provider EXCEPT
                      !.pending = @ - 1,
                      !.rejected = e,
                      !.joinError = IF InstanceOfError(e) THEN e
                                    ELSE UnknownJoinError,
                      !.settledAtRun = provider.effectRuns]
    /\ UNCHANGED <<sessionVars, history, users, writes, tokenFetch, odspClient,
                   registry>>

\* ------------------------------------------------- LiveShareOdspClient.join
\* The client before join is called: whether options.itemId is set, whether
\* location.hash is empty and whether the caller passes
\* onContainerFirstCreated. pc is the await join is at; connectionState,
\* canConnect and createdByCall describe the container it obtained; created
\* and connectedAtReturn are what it returned.
ClientNotJoined(itemId, hashEmpty, callback) ==
    [itemId |-> itemId, hashEmpty |-> hashEmpty, callback |-> callback,
     pc |-> "idle", isNew |-> FALSE, created |-> FALSE,
     createdByCall |-> FALSE, connectionState |-> "Disconnected",
     canConnect |-> FALSE, callbackCalls |-> 0, connectedAtReturn |-> FALSE,
     loadError |-> None, error |-> None]

\* What the two calls of the ODSP client can reject with.
ContainerErrors == {"file not found", "network error", "access denied"}

\* `onContainerFirstCreated?.(fluidContainer)`.
InvokeCallback(c) ==
    IF c.callback THEN [c EXCEPT !.callbackCalls = @ + 1] ELSE c

\* The end of join with a container in hand: return the results if the
\* container is connected, otherwise wait for its "connected" event.
AwaitConnected(c) ==
    IF c.connectionState = "Connected"
    THEN [c EXCEPT !.pc = "resolved", !.connectedAtReturn = TRUE]
    ELSE [c EXCEPT !.pc = "waiting"]

\* join(): with an itemId, client.getContainer(itemId); without one,
\* oldJoin: getContainerId() reads the hash, and either branch calls
\* client.getContainer (with documentId if the hash was empty).
clientJoin ==
    /\ odspClient.pc = "idle"
    /\ odspClient' =
          IF odspClient.itemId
          THEN [odspClient EXCEPT !.pc = "getContainer"]
          ELSE [odspClient EXCEPT !.pc = "oldJoin",
                                  !.isNew = odspClient.hashEmpty]
    /\ UNCHANGED <<sessionVars, history, users, writes, tokenFetch, provider,
                   registry>>

\* client.getContainer resolves with a loaded container, connected or not
\* yet. With an itemId created is false; in oldJoin the callback is invoked
\* and the hash set if the hash was empty, and created is isNew.
getContainerResolves(connected) ==
    /\ odspClient.pc \in {"getContainer", "oldJoin"}
    /\ LET loaded == [odspClient EXCEPT
                        !.connectionState =
                            IF connected THEN "Connected" ELSE "Disconnected",
                        !.canConnect = TRUE]
       IN  odspClient' =
             IF odspClient.pc = "getContainer"
             THEN AwaitConnected([loaded EXCEPT !.created = FALSE])
             ELSE IF odspClient.isNew
             THEN AwaitConnected(
                     [InvokeCallback(loaded) EXCEPT !.hashEmpty = FALSE,
                                                    !.created = TRUE])
             ELSE AwaitConnected([loaded EXCEPT !.created = FALSE])
    /\ UNCHANGED <<sessionVars, history, users, writes, tokenFetch, provider,
                   registry>>

\* client.getContainer rejects: with an itemId the catch block calls
\* client.createContainerForExistingFile; oldJoin has no catch.
getContainerRejects(e) ==
    /\ odspClient.pc \in {"getContainer", "oldJoin"}
    /\ odspClient' =
          IF odspClient.pc = "getContainer"
          THEN [odspClient EXCEPT !.pc = "createContainerForExistingFile",
                                  !.loadError = e]
          ELSE [odspClient EXCEPT !.pc = "rejected", !.error = e]
    /\ UNCHANGED <<sessionVars, history, users, writes, tokenFetch, provider,
                   registry>>

\* client.createContainerForExistingFile resolves with a detached
\* container; the callback is invoked and created is true. Whether the
\* container ever connects depends on the callback attaching it.
createContainerResolves(attaches) ==
    /\ odspClient.pc = "createContainerForExistingFile"
    /\ odspClient' =
          AwaitConnected(
             [InvokeCallback(odspClient) EXCEPT
                 !.createdByCall = TRUE,
                 !.created = TRUE,
                 !.connectionState = "Disconnected",
                 !.canConnect = attaches /\ odspClient.callback])
    /\ UNCHANGED <<sessionVars, history, users, writes, tokenFetch, provider,
                   registry>>

\* client.createContainerForExistingFile rejects, and so does join.
createContainerRejects(e) ==
    /\ odspClient.pc = "createContainerForExistingFile"
    /\ odspClient' = [odspClient EXCEPT !.pc = "rejected", !.error = e]
    /\ UNCHANGED <<sessionVars, history, users, writes, tokenFetch, provider,
                   registry>>

\* The container emits "connected": a waiting join returns its results.
containerConnected ==
    /\ odspClient.pc \in {"waiting", "resolved"}
    /\ odspClient.canConnect
    /\ odspClient.connectionState = "Disconnected"
    /\ odspClient' =
          AwaitConnected([odspClient EXCEPT !.connectionState = "Connected"])
    /\ UNCHANGED <<sessionVars, history, users, writes, tokenFetch, provider,
                   registry>>

\* The container loses its connection after join returned.
containerDisconnected ==
    /\ odspClient.pc = "resolved"
    /\ odspClient.connectionState = "Connected"
    /\ odspClient' = [odspClient EXCEPT !.connectionState = "Disconnected"]
    /\ UNCHANGED <<sessionVars, history, users, writes, tokenFetch, provider,
                   registry>>

\* ---------------------------------------------------- useSharedStateRegistry
Keys == {"k1", "k2"}
ComponentIds == {"c1"}
Handlers == {"h1", "h2"}

\* Values of the shared map: 0 is falsy, 1 is not. stateMap.get of an absent
\* key is undefined.
StateValues == {0, 1}
NoValue == -1

\* A handler that has not been called.
Never == -2

\* `if (initialValue)`.
Truthy(v) == v # NoValue /\ v # 0

\* The registry at mount, before the join results exist; map is what the
\* container's TURBO_STATE_MAP holds.
RegistryMounted(map) ==
    [results |-> FALSE,
     stateMap |-> map,
     actions |-> [k \in Keys |-> [c \in ComponentIds |-> None]],
     lastCalled |-> [k \in Keys |-> [h \in Handlers |-> Never]],
     removed |-> [k \in Keys |-> {}],
     calledAfterRemoval |-> FALSE]

\* The handlers in the actions map of key k.
RegisteredHandlers(reg, k) ==
    {reg.actions[k][c] : c \in ComponentIds} \ {None}

\* The handlers hs of key k are called with v.
CallHandlers(reg, k, hs, v) ==
    [reg EXCEPT
       !.lastCalled[k] = [h \in Handlers |-> IF h \in hs THEN v ELSE @[h]],
       !.calledAfterRemoval = @ \/ (hs \cap reg.removed[k] # {})]

\* The valueChanged listener, attached once the results exist: every handler
\* registered for the key is called with stateMap.get(key).
valueChangedListener(reg, k) ==
    IF reg.results
    THEN CallHandlers(reg, k, RegisteredHandlers(reg, k), reg.stateMap[k])
    ELSE reg

\* registerSharedSetStateAction(uniqueKey, componentId, setLocalStateAction):
\* the handler is stored unless the component has one stored already, then
\* it is called with the key's value if that value is truthy.
registerSharedSetStateAction(k, c, h) ==
    /\ LET stored == [registry EXCEPT
                        !.actions[k][c] = IF @ = None THEN h ELSE @,
                        !.removed[k] = @ \ {h}]
           initialValue == IF registry.results THEN registry.stateMap[k]
                           ELSE NoValue
       IN  registry' = IF Truthy(initialValue)
                       THEN CallHandlers(stored, k, {h}, initialValue)
                       ELSE stored
    /\ UNCHANGED <<sessionVars, history, users, writes, tokenFetch, provider,
                   odspClient>>

\* unregisterSharedSetStateAction(uniqueKey, componentId).
unregisterSharedSetStateAction(k, c) ==
    /\ registry' = [registry EXCEPT
                       !.actions[k][c] = None,
                       !.removed[k] = @ \cup ({registry.actions[k][c]} \ {None})]
    /\ UNCHANGED <<sessionVars, history, users, writes, tokenFetch, provider,
                   odspClient>>

\* updateSharedState(uniqueKey, value): nothing without results; otherwise
\* stateMap.set, which emits valueChanged.
updateSharedState(k, v) ==
    /\ registry' =
          IF ~registry.results THEN registry
          ELSE valueChangedListener([registry EXCEPT !.stateMap[k] = v], k)
    /\ UNCHANGED <<sessionVars, history, users, writes, tokenFetch, provider,
                   odspClient>>

\* deleteSharedState(uniqueKey): nothing without results; otherwise the
\* key's actions map is cleared and then the key deleted from the map.
deleteSharedState(k) ==
    /\ registry' =
          IF ~registry.results THEN registry
          ELSE valueChangedListener(
                  [registry EXCEPT
                     !.actions[k] = [c \in ComponentIds |-> None],
                     !.removed[k] = @ \cup RegisteredHandlers(registry, k),
                     !.stateMap[k] = NoValue], k)
    /\ UNCHANGED <<sessionVars, history, users, writes, tokenFetch, provider,
                   odspClient>>

\* Another client's set (or, with NoValue, delete) of key k is applied.
remoteValueChanged(k, v) ==
    /\ registry.results
    /\ registry.stateMap[k] # v
    /\ registry' = valueChangedListener([registry EXCEPT !.stateMap[k] = v], k)
    /\ UNCHANGED <<sessionVars, history, users, writes, tokenFetch, provider,
                   odspClient>>

\* The effect on results: with k1 and k2 the keys of the map,
\* stateMap.forEach calls the handlers of every key present with its value.
RECURSIVE SetInitialValues(_, _)
SetInitialValues(reg, keys) ==
    IF keys = {} THEN reg
    ELSE LET k == CHOOSE x \in keys : TRUE
         IN  SetInitialValues(
                IF reg.stateMap[k] = NoValue THEN reg
                ELSE CallHandlers(reg, k, RegisteredHandlers(reg, k),
                                  reg.stateMap[k]),
                keys \ {k})

\* The join results arrive: the effect attaches the listener and sets the
\* initial values.
resultsArrive ==
    /\ ~registry.results
    /\ registry' = SetInitialValues([registry EXCEPT !.results = TRUE], Keys)
    /\ UNCHANGED <<sessionVars, history, users, writes, tokenFetch, provider,
                   odspClient>>

\* ---------------------------------------------------------------- the page
FetchIdle == tokenFetch = None

ProviderIdle == provider = None

ClientIdle == odspClient = None

RegistryIdle == registry = None

\* Nothing of the page outside the follow-mode session is in use.
PageIdle ==
    /\ MapIdle
    /\ FetchIdle
    /\ ProviderIdle
    /\ ClientIdle
    /\ RegistryIdle

\* ------------------------------------------------------------ specification
\* Logging is "off", keeps the last of the "calls", or keeps the last of
\* the "steps".
NoHistory(on) ==
    [on |-> on, call |-> NoCall, missed |-> [u \in Users |-> 0]]

NotComputed == [u \in Users |-> [presence |-> FALSE, takeControl |-> FALSE,
                                 done |-> FALSE]]

\* ACCEPT_PLAYBACK_CHANGES_FROM as the template ships it.
AcceptPlaybackChangesFrom == {"Organizer", "Presenter"}

\* Every user connected, nobody presenting or following, media m selected.
Connected(m) ==
    [presenter |-> None,
     presence |-> [v \in Users |-> PresenceUser(TRUE, None, InitialData(m))]]

InitSession ==
    /\ joined = [u \in Users |-> TRUE]
    /\ server = Connected(None)
    /\ replica = [u \in Users |-> Connected(None)]
    /\ inbox = [u \in Users |-> <<>>]
    /\ followSuspended = [u \in Users |-> FALSE]
    /\ suspended = [u \in Users |-> FALSE]
    /\ player = [u \in Users |-> NoPlayer]
    /\ now = 0
    /\ elig = NotComputed
    /\ PageIdle
    /\ mediaSessionStarted = [u \in Users |-> TRUE]

Init ==
    /\ allowed = AcceptPlaybackChangesFrom
    /\ roles = [u \in Users |-> IF u = "A" THEN {"Organizer"}
                                ELSE IF u = "B" THEN {"Presenter"}
                                ELSE {"Attendee"}]
    /\ initiator = None
    /\ hist = NoHistory("off")
    /\ InitSession

\* The user who clicks avatars in Spec: the attendee, who cannot present.
Viewer == "C"

Next ==
    \/ \E u \in Users :
          \/ Join(u)
          \/ Leave(u)
          \/ Deliver(u)
          \/ takeControl(u)
          \/ stopPresenting(u)
    \/ stopFollowing(Viewer)
    \/ \E w \in Users : followUser(Viewer, w)

Spec == Init /\ [][Next]_vars

\* The take-control protocol with the hook calls logged: the same session,
\* without avatar clicks and reconnections.
InitCalls ==
    /\ allowed = AcceptPlaybackChangesFrom
    /\ roles = [u \in Users |-> IF u = "A" THEN {"Organizer"}
                                ELSE IF u = "B" THEN {"Presenter"}
                                ELSE {"Attendee"}]
    /\ initiator = None
    /\ hist = NoHistory("calls")
    /\ InitSession

NextCalls ==
    \E u \in Users :
        \/ Leave(u)
        \/ Deliver(u)
        \/ takeControl(u)
        \/ stopPresenting(u)

SpecCalls == InitCalls /\ [][NextCalls]_vars

\* The eligibility computations over every allowed-role list and role set,
\* before and after the clients connected.
RoleSets == {{}, {"Attendee"}, {"Presenter"}, {"Organizer", "Presenter"}}

InitNobody ==
    /\ joined = [u \in Users |-> FALSE]
    /\ server = EmptyShared
    /\ replica = [u \in Users |-> EmptyShared]
    /\ inbox = [u \in Users |-> <<>>]
    /\ followSuspended = [u \in Users |-> FALSE]
    /\ suspended = [u \in Users |-> FALSE]
    /\ player = [u \in Users |-> NoPlayer]
    /\ now = 0
    /\ elig = NotComputed
    /\ PageIdle
    /\ mediaSessionStarted = [u \in Users |-> TRUE]

InitEligibility ==
    /\ allowed \in SUBSET Roles
    /\ roles \in [Users -> RoleSets]
    /\ initiator = None
    /\ hist = NoHistory("off")
    /\ (InitSession \/ InitNobody)

NextEligibility == \E u \in Users : RenderHooks(u)

SpecEligibility == InitEligibility /\ [][NextEligibility]_vars

\* Playback: A and C watch vid1, paused at its start; A presents, or does
\* not and C has clicked A's avatar; B is not connected.  C is the one who
\* suspends and resumes.
Watching == {"A", "C"}

Start == FollowData("vid1", TRUE, Changed(0, 0))

Session(p) ==
    [presenter |-> p,
     presence |-> [v \in Users |->
                     IF v = "A" THEN PresenceUser(TRUE, None, Start)
                     ELSE IF v = "C"
                     THEN PresenceUser(TRUE, IF p = None THEN "A" ELSE None,
                                       Start)
                     ELSE Offline]]

InitMedia ==
    /\ allowed = AcceptPlaybackChangesFrom
    /\ roles = [u \in Users |-> IF u = "A" THEN {"Organizer"}
                                ELSE IF u = "B" THEN {"Presenter"}
                                ELSE {"Attendee"}]
    /\ initiator = None
    /\ hist = NoHistory("steps")
    /\ joined = [u \in Users |-> u \in Watching]
    /\ \E p \in {"A", None} :
          /\ server = Session(p)
          /\ replica = [u \in Users |->
                          IF u \in Watching THEN Session(p) ELSE EmptyShared]
    /\ inbox = [u \in Users |-> <<>>]
    /\ followSuspended = [u \in Users |-> FALSE]
    /\ suspended = [u \in Users |-> FALSE]
    /\ player = [u \in Users |->
                   IF u \in Watching THEN Player("vid1", TRUE, 0) ELSE NoPlayer]
    /\ now = 0
    /\ elig = NotComputed
    /\ PageIdle
    /\ mediaSessionStarted = [u \in Users |-> TRUE]

\* The playback controls in everybody's hands.
NextMedia ==
    \/ \E u \in Users :
          \/ Deliver(u)
          \/ play(u)
          \/ pause(u)
          \/ \E t \in Positions : seekTo(u, t)
          \/ \E id \in MediaIds : id = selectedMediaId(u) /\ setTrack(u, id)
          \/ endSuspension(u)
    \/ Tick

SpecMedia == InitMedia /\ [][NextMedia]_vars

\* The suspension operations of the coordinator and of the synchronizer,
\* called by the viewer while the host, whom the viewer follows, plays,
\* pauses and seeks.
Host == "A"

NextSuspension ==
    \/ \E u \in Users :
          \/ Deliver(u)
          \/ liveFollowModeBeginSuspension(u)
    \/ play(Host)
    \/ pause(Host)
    \/ \E t \in Positions : seekTo(Host, t)
    \/ mediaSynchronizerBeginSuspension(Viewer)
    \/ endSuspension(Viewer)
    \/ liveFollowModeEndSuspension(Viewer)
    \/ Tick

SpecSuspension == InitMedia /\ [][NextSuspension]_vars

\* A late joiner: the host presents vid1 and either has it paused at its
\* start or pressed play when the session began; the viewer connects, and
\* disconnects, at any later time.
Playing == FollowData("vid1", FALSE, Changed(0, 0))

Presented(data) ==
    [presenter |-> Host,
     presence |-> [v \in Users |->
                     IF v = Host THEN PresenceUser(TRUE, None, data)
                     ELSE Offline]]

InitLateJoin ==
    /\ allowed = AcceptPlaybackChangesFrom
    /\ roles = [u \in Users |-> IF u = "A" THEN {"Organizer"}
                                ELSE IF u = "B" THEN {"Presenter"}
                                ELSE {"Attendee"}]
    /\ initiator = None
    /\ hist = NoHistory("off")
    /\ joined = [u \in Users |-> u = Host]
    /\ \E data \in {Start, Playing} :
          /\ server = Presented(data)
          /\ replica = [u \in Users |->
                          IF u = Host THEN Presented(data) ELSE EmptyShared]
          /\ player = [u \in Users |->
                         IF u = Host THEN Player("vid1", data.paused, 0)
                         ELSE NoPlayer]
    /\ inbox = [u \in Users |-> <<>>]
    /\ followSuspended = [u \in Users |-> FALSE]
    /\ suspended = [u \in Users |-> FALSE]
    /\ now = 0
    /\ elig = NotComputed
    /\ PageIdle
    /\ mediaSessionStarted = [u \in Users |-> TRUE]

NextLateJoin ==
    \/ \E u \in Users : Deliver(u)
    \/ play(Host)
    \/ pause(Host)
    \/ \E t \in Positions : seekTo(Host, t)
    \/ Join(Viewer)
    \/ Leave(Viewer)
    \/ Tick

SpecLateJoin == InitLateJoin /\ [][NextLateJoin]_vars

\* Following a follower: everybody watches vid1, paused at its start, and
\* nobody presents; B has clicked the viewer's avatar.  The host and the
\* viewer seek, and the viewer clicks avatars.
Follower == "B"

Chained ==
    [presenter |-> None,
     presence |-> [v \in Users |->
                     PresenceUser(TRUE, IF v = Follower THEN Viewer ELSE None,
                                  Start)]]

InitAdopt ==
    /\ allowed = AcceptPlaybackChangesFrom
    /\ roles = [u \in Users |-> IF u = "A" THEN {"Organizer"}
                                ELSE IF u = "B" THEN {"Presenter"}
                                ELSE {"Attendee"}]
    /\ initiator = None
    /\ hist = NoHistory("off")
    /\ joined = [u \in Users |-> TRUE]
    /\ server = Chained
    /\ replica = [u \in Users |-> Chained]
    /\ inbox = [u \in Users |-> <<>>]
    /\ followSuspended = [u \in Users |-> FALSE]
    /\ suspended = [u \in Users |-> FALSE]
    /\ player = [u \in Users |-> Player("vid1", TRUE, 0)]
    /\ now = 0
    /\ elig = NotComputed
    /\ PageIdle
    /\ mediaSessionStarted = [u \in Users |-> TRUE]

NextAdopt ==
    \/ \E u \in Users : Deliver(u)
    \/ \E t \in Positions : seekTo(Host, t)
    \/ \E t \in Positions : seekTo(Viewer, t)
    \/ \E w \in Users : followUser(Viewer, w)
    \/ Tick

SpecAdopt == InitAdopt /\ [][NextAdopt]_vars

\* Choosing whom to follow: everybody watches vid1; the host has sought to
\* its end, paused, the others are paused at its start; B has clicked the
\* avatar of the host or of the viewer.  The host takes and gives up
\* control and may leave; the viewer clicks avatars and the STOP button.
Sought == FollowData("vid1", TRUE, Changed(0, Duration))

Following(f) ==
    [presenter |-> None,
     presence |-> [v \in Users |->
                     PresenceUser(TRUE, IF v = Follower THEN f ELSE None,
                                  IF v = Host THEN Sought ELSE Start)]]

InitFollow ==
    /\ allowed = AcceptPlaybackChangesFrom
    /\ roles = [u \in Users |-> IF u = "A" THEN {"Organizer"}
                                ELSE IF u = "B" THEN {"Presenter"}
                                ELSE {"Attendee"}]
    /\ initiator = None
    /\ hist = NoHistory("calls")
    /\ joined = [u \in Users |-> TRUE]
    /\ \E f \in {Host, Viewer} :
          /\ server = Following(f)
          /\ replica = [u \in Users |-> Following(f)]
          /\ player = [u \in Users |->
                         IF u = Host \/ (u = Follower /\ f = Host)
                         THEN Player("vid1", TRUE, Duration)
                         ELSE Player("vid1", TRUE, 0)]
    /\ inbox = [u \in Users |-> <<>>]
    /\ followSuspended = [u \in Users |-> FALSE]
    /\ suspended = [u \in Users |-> FALSE]
    /\ now = MsPerSecond
    /\ elig = NotComputed
    /\ PageIdle
    /\ mediaSessionStarted = [u \in Users |-> TRUE]

NextFollow ==
    \/ \E u \in Users : Deliver(u)
    \/ takeControl(Host)
    \/ stopPresenting(Host)
    \/ Leave(Host)
    \/ \E w \in Users : followUser(Viewer, w)
    \/ stopFollowing(Viewer)

SpecFollow == InitFollow /\ [][NextFollow]_vars

\* The same session with the viewer's controls: the viewer clicks the
\* host's avatar, suspends and stops following while the host takes control.
NextUnfollow ==
    \/ \E u \in Users : Deliver(u)
    \/ takeControl(Host)
    \/ followUser(Viewer, Host)
    \/ stopFollowing(Viewer)
    \/ liveFollowModeBeginSuspension(Viewer)

SpecUnfollow == InitFollow /\ [][NextUnfollow]_vars

\* The take-control protocol in a session whose share initiator is the
\* host: useTakeControl is handed isShareInitiator = true at the host.
InitInitiator ==
    /\ allowed = AcceptPlaybackChangesFrom
    /\ roles = [u \in Users |-> IF u = "A" THEN {"Organizer"}
                                ELSE IF u = "B" THEN {"Presenter"}
                                ELSE {"Attendee"}]
    /\ initiator = Host
    /\ hist = NoHistory("calls")
    /\ InitSession

NextInitiator ==
    \E u \in Users :
        \/ Leave(u)
        \/ Deliver(u)
        \/ takeControl(u)
        \/ stopPresenting(u)
        \/ AutoStartPresenting(u)

SpecInitiator == InitInitiator /\ [][NextInitiator]_vars

\* Giving up control, with delivery guaranteed: the host and B take and
\* give up control, the viewer suspends and resumes, and every update
\* sequenced is eventually applied by every connected client.
NextStop ==
    \/ \E u \in Users : Deliver(u)
    \/ \E u \in {Host, Follower} :
          \/ takeControl(u)
          \/ stopPresenting(u)
    \/ liveFollowModeBeginSuspension(Viewer)
    \/ liveFollowModeEndSuspension(Viewer)

SpecStop ==
    /\ Init
    /\ [][NextStop]_vars
    /\ \A u \in Users : WF_vars(Deliver(u))

\* Losing the user one follows, with delivery guaranteed: B follows the
\* host or the viewer; the host takes control and leaves, B takes control,
\* the viewer clicks avatars.
InitLeave ==
    /\ allowed = AcceptPlaybackChangesFrom
    /\ roles = [u \in Users |-> IF u = "A" THEN {"Organizer"}
                                ELSE IF u = "B" THEN {"Presenter"}
                                ELSE {"Attendee"}]
    /\ initiator = None
    /\ hist = NoHistory("off")
    /\ joined = [u \in Users |-> TRUE]
    /\ \E f \in {Host, Viewer} :
          /\ server = Following(f)
          /\ replica = [u \in Users |-> Following(f)]
          /\ player = [u \in Users |->
                         IF u = Host \/ (u = Follower /\ f = Host)
                         THEN Player("vid1", TRUE, Duration)
                         ELSE Player("vid1", TRUE, 0)]
    /\ inbox = [u \in Users |-> <<>>]
    /\ followSuspended = [u \in Users |-> FALSE]
    /\ suspended = [u \in Users |-> FALSE]
    /\ now = MsPerSecond
    /\ elig = NotComputed
    /\ PageIdle
    /\ mediaSessionStarted = [u \in Users |-> TRUE]

NextLeave ==
    \/ \E u \in Users : Deliver(u)
    \/ takeControl(Host)
    \/ takeControl(Follower)
    \/ Leave(Host)
    \/ \E w \in Users : followUser(Viewer, w)

SpecLeave ==
    /\ InitLeave
    /\ [][NextLeave]_vars
    /\ \A u \in Users : WF_vars(Deliver(u))

\* Choosing media: the host and the viewer are connected with no media
\* selected; each opens a media of its own, the host takes control and
\* seeks, and the track effect runs at either.
InitTrack ==
    /\ allowed = AcceptPlaybackChangesFrom
    /\ roles = [u \in Users |-> IF u = "A" THEN {"Organizer"}
                                ELSE IF u = "B" THEN {"Presenter"}
                                ELSE {"Attendee"}]
    /\ initiator = None
    /\ hist = NoHistory("off")
    /\ joined = [u \in Users |-> u \in Watching]
    /\ server = [Connected(None) EXCEPT !.presence[Follower] = Offline]
    /\ replica = [u \in Users |->
                    IF u \in Watching
                    THEN [Connected(None) EXCEPT !.presence[Follower] = Offline]
                    ELSE EmptyShared]
    /\ inbox = [u \in Users |-> <<>>]
    /\ followSuspended = [u \in Users |-> FALSE]
    /\ suspended = [u \in Users |-> FALSE]
    /\ player = [u \in Users |-> NoPlayer]
    /\ now = 0
    /\ elig = NotComputed
    /\ PageIdle
    /\ mediaSessionStarted = [u \in Users |-> TRUE]

NextTrack ==
    \/ \E u \in Users :
          \/ Deliver(u)
          \/ setPlayer(u)
          \/ \E id \in MediaIds : id = selectedMediaId(u) /\ setTrack(u, id)
    \/ selectMedia(Host, "vid1")
    \/ selectMedia(Viewer, "vid2")
    \/ takeControl(Host)
    \/ seekTo(Host, Duration)
    \/ Tick

SpecTrack == InitTrack /\ [][NextTrack]_vars

\* The meeting stage from its start: somebody shared to the stage and is the
\* share initiator; the effect runs at every client after each change of
\* its state, the eligible users take and give up control, and every
\* sequenced update is eventually delivered.
InitBootstrap ==
    /\ allowed = AcceptPlaybackChangesFrom
    /\ roles = [u \in Users |-> IF u = "A" THEN {"Organizer"}
                                ELSE IF u = "B" THEN {"Presenter"}
                                ELSE {"Attendee"}]
    /\ initiator \in {Host, Follower}
    /\ hist = NoHistory("off")
    /\ InitSession

NextBootstrap ==
    \/ \E u \in Users :
          \/ Deliver(u)
          \/ AutoStartPresenting(u)
    \/ takeControl(Follower)
    \/ stopPresenting(Host)
    \/ stopPresenting(Follower)

SpecBootstrap ==
    /\ InitBootstrap
    /\ [][NextBootstrap]_vars
    /\ \A u \in Users : WF_vars(Deliver(u)) /\ WF_vars(AutoStartPresenting(u))

\* Starting up: the host and the viewer have their coordinator and their
\* player, the third user has nothing yet, and nobody has a synchronizer
\* until useMediaSynchronizer resolves; the controls are in everybody's
\* hands from the start.
InitReady ==
    /\ allowed = AcceptPlaybackChangesFrom
    /\ roles = [u \in Users |-> IF u = "A" THEN {"Organizer"}
                                ELSE IF u = "B" THEN {"Presenter"}
                                ELSE {"Attendee"}]
    /\ initiator = None
    /\ hist = NoHistory("off")
    /\ joined = [u \in Users |-> u \in Watching]
    /\ \E p \in {Host, None} :
          /\ server = Session(p)
          /\ replica = [u \in Users |->
                          IF u \in Watching THEN Session(p) ELSE EmptyShared]
    /\ inbox = [u \in Users |-> <<>>]
    /\ followSuspended = [u \in Users |-> FALSE]
    /\ suspended = [u \in Users |-> FALSE]
    /\ player = [u \in Users |->
                   IF u \in Watching THEN Player("vid1", TRUE, 0) ELSE NoPlayer]
    /\ mediaSessionStarted = [u \in Users |-> FALSE]
    /\ now = 0
    /\ elig = NotComputed
    /\ PageIdle

NextReady ==
    \/ \E u \in Users :
          \/ Deliver(u)
          \/ mediaSessionStart(u)
          \/ takeControl(u)
          \/ play(u)
          \/ pause(u)
          \/ seekTo(u, Duration)
          \/ \E id \in MediaIds : id = selectedMediaId(u) /\ setTrack(u, id)
    \/ Tick

SpecReady == InitReady /\ [][NextReady]_vars

\* Two followers of one presenter: the host presents vid1 to B and to the
\* viewer; the host plays, pauses and seeks while the viewer begins and
\* ends the suspension of its synchronizer and of its coordinator.
Audience ==
    [presenter |-> Host,
     presence |-> [v \in Users |-> PresenceUser(TRUE, None, Start)]]

InitAudience ==
    /\ allowed = AcceptPlaybackChangesFrom
    /\ roles = [u \in Users |-> IF u = "A" THEN {"Organizer"}
                                ELSE IF u = "B" THEN {"Presenter"}
                                ELSE {"Attendee"}]
    /\ initiator = None
    /\ hist = NoHistory("off")
    /\ joined = [u \in Users |-> TRUE]
    /\ server = Audience
    /\ replica = [u \in Users |-> Audience]
    /\ inbox = [u \in Users |-> <<>>]
    /\ followSuspended = [u \in Users |-> FALSE]
    /\ suspended = [u \in Users |-> FALSE]
    /\ player = [u \in Users |-> Player("vid1", TRUE, 0)]
    /\ mediaSessionStarted = [u \in Users |-> TRUE]
    /\ now = 0
    /\ elig = NotComputed
    /\ PageIdle

NextAudience ==
    \/ \E u \in Users : Deliver(u)
    \/ play(Host)
    \/ pause(Host)
    \/ seekTo(Host, Duration)
    \/ mediaSynchronizerBeginSuspension(Viewer)
    \/ endSuspension(Viewer)
    \/ liveFollowModeBeginSuspension(Viewer)
    \/ liveFollowModeEndSuspension(Viewer)
    \/ Tick

SpecAudience == InitAudience /\ [][NextAudience]_vars

\* Overlapping transitions: B follows the host or the viewer; B and the host
\* take control, B stops presenting and stops following, each call possibly
\* before the caller's previous request has come back.
NextOverlap ==
    \/ \E u \in Users : Deliver(u)
    \/ takeControl(Host)
    \/ takeControl(Follower)
    \/ stopPresenting(Follower)
    \/ stopFollowing(Follower)

SpecOverlap == InitFollow /\ [][NextOverlap]_vars

\* A large meeting: the host shares to the stage (isShareInitiator) and
\* takes control automatically; B takes and gives up control, B and the
\* viewer click avatars, the host leaves.
NextBackground ==
    \/ \E u \in Users :
          \/ Deliver(u)
          \/ AutoStartPresenting(u)
    \/ takeControl(Follower)
    \/ stopPresenting(Follower)
    \/ Leave(Host)
    \/ \E w \in Users :
          \/ followUser(Follower, w)
          \/ followUser(Viewer, w)

SpecBackground == InitInitiator /\ [][NextBackground]_vars

\* Who drives the synchronizer: B follows the host or the viewer, the host
\* takes control and may leave, B and the viewer suspend, and everybody
\* uses the player's controls.
InitView ==
    /\ allowed = AcceptPlaybackChangesFrom
    /\ roles = [u \in Users |-> IF u = "A" THEN {"Organizer"}
                                ELSE IF u = "B" THEN {"Presenter"}
                                ELSE {"Attendee"}]
    /\ initiator = None
    /\ hist = NoHistory("gestures")
    /\ joined = [u \in Users |-> TRUE]
    /\ \E f \in {Host, Viewer} :
          /\ server = Following(f)
          /\ replica = [u \in Users |-> Following(f)]
          /\ player = [u \in Users |->
                         IF u = Host \/ (u = Follower /\ f = Host)
                         THEN Player("vid1", TRUE, Duration)
                         ELSE Player("vid1", TRUE, 0)]
    /\ inbox = [u \in Users |-> <<>>]
    /\ followSuspended = [u \in Users |-> FALSE]
    /\ suspended = [u \in Users |-> FALSE]
    /\ now = MsPerSecond
    /\ elig = NotComputed
    /\ PageIdle
    /\ mediaSessionStarted = [u \in Users |-> TRUE]

NextView ==
    \/ \E u \in Users :
          \/ Deliver(u)
          \/ play(u)
          \/ pause(u)
          \/ seekTo(u, Duration)
          \/ setTrack(u, "vid2")
    \/ takeControl(Host)
    \/ Leave(Host)
    \/ liveFollowModeBeginSuspension(Follower)
    \/ liveFollowModeBeginSuspension(Viewer)

SpecView == InitView /\ [][NextView]_vars

\* The meeting stage shared by anybody: the share initiator is any of the
\* three users, and the allowed roles are the shipped ones or the organizer
\* alone; everybody may call takeControl() and stopPresenting().
InitStage ==
    /\ allowed \in {AcceptPlaybackChangesFrom, {"Organizer"}}
    /\ roles = [u \in Users |-> IF u = "A" THEN {"Organizer"}
                                ELSE IF u = "B" THEN {"Presenter"}
                                ELSE {"Attendee"}]
    /\ initiator \in Users
    /\ hist = NoHistory("calls")
    /\ InitSession

NextStage ==
    \E u \in Users :
        \/ Deliver(u)
        \/ takeControl(u)
        \/ stopPresenting(u)
        \/ AutoStartPresenting(u)

SpecStage == InitStage /\ [][NextStage]_vars

\* Clicking the avatar of a follower: B follows the viewer, the viewer
\* seeks, and the host clicks avatars.
NextChain ==
    \/ \E u \in Users : Deliver(u)
    \/ seekTo(Viewer, Duration)
    \/ \E w \in Users : followUser(Host, w)
    \/ Tick

SpecChain == InitAdopt /\ [][NextChain]_vars

\* Everybody clicks avatars: three connected users, nobody presents.
NextClicks ==
    \/ \E u \in Users : Deliver(u)
    \/ \E u, w \in Users : followUser(u, w)

SpecClicks == Init /\ [][NextClicks]_vars

\* ------------------------------------------------ specifications of the page
\* The orders in which usePresence can list the three users.
UserOrders ==
    {o \in [1..3 -> Users] : \A i, j \in 1..3 : o[i] = o[j] => i = j}

\* The take-control map variant in use: everybody listed and online, nobody
\* has taken control, the clock reads a positive time later than the joins.
InitMap ==
    /\ allowed = AcceptPlaybackChangesFrom
    /\ roles = [u \in Users |-> IF u = "A" THEN {"Organizer"}
                                ELSE IF u = "B" THEN {"Presenter"}
                                ELSE {"Attendee"}]
    /\ initiator = None
    /\ hist = NoHistory("off")
    /\ joined = [u \in Users |-> TRUE]
    /\ server = Connected(None)
    /\ replica = [u \in Users |-> Connected(None)]
    /\ inbox = [u \in Users |-> <<>>]
    /\ followSuspended = [u \in Users |-> FALSE]
    /\ suspended = [u \in Users |-> FALSE]
    /\ player = [u \in Users |-> NoPlayer]
    /\ mediaSessionStarted = [u \in Users |-> TRUE]
    /\ now = MsPerSecond
    /\ elig = NotComputed
    /\ history = [u \in Users |-> NoEntry]
    /\ writes = [u \in Users |-> <<>>]
    /\ \E o \in UserOrders : \E j \in [Users -> JoinTimes] :
          users = [i \in 1..3 |->
                     [userId |-> o[i], state |-> "online",
                      joinedTimestamp |-> j[o[i]]]]
    /\ tokenFetch = None
    /\ provider = None
    /\ odspClient = None
    /\ registry = None

NextMap ==
    \/ \E u \in Users : takeControlByMap(u)
    \/ \E u \in Users : ApplySet(u)
    \/ Tick

SpecMap == InitMap /\ [][NextMap]_vars

\* Everything of the page idle but one subsystem is written out per
\* specification; the follow-mode session is at its initial state.
InitPageSession ==
    /\ allowed = AcceptPlaybackChangesFrom
    /\ roles = [u \in Users |-> IF u = "A" THEN {"Organizer"}
                                ELSE IF u = "B" THEN {"Presenter"}
                                ELSE {"Attendee"}]
    /\ initiator = None
    /\ hist = NoHistory("off")
    /\ joined = [u \in Users |-> TRUE]
    /\ server = Connected(None)
    /\ replica = [u \in Users |-> Connected(None)]
    /\ inbox = [u \in Users |-> <<>>]
    /\ followSuspended = [u \in Users |-> FALSE]
    /\ suspended = [u \in Users |-> FALSE]
    /\ player = [u \in Users |-> NoPlayer]
    /\ mediaSessionStarted = [u \in Users |-> TRUE]
    /\ now = MsPerSecond
    /\ elig = NotComputed

InitFetch ==
    /\ InitPageSession
    /\ MapIdle
    /\ tokenFetch = FetchNotCalled
    /\ ProviderIdle
    /\ ClientIdle
    /\ RegistryIdle

NextFetch ==
    \/ getWithRetryForTokenRefresh
    \/ \E o \in Outcomes : firstGetSettles(o)
    \/ \E o \in Outcomes : secondGetSettles(o)

\* Every call of get settles.
SpecFetch == InitFetch /\ [][NextFetch]_vars /\ WF_vars(NextFetch)

InitProvider ==
    /\ InitPageSession
    /\ MapIdle
    /\ FetchIdle
    /\ \E b \in BOOLEAN : provider = ProviderMounted(b)
    /\ ClientIdle
    /\ RegistryIdle

NextProvider ==
    \/ loadEffect
    \/ \E b \in BOOLEAN : setJoinOnLoad(b)
    \/ \E r \in JoinResults : joinResolves(r)
    \/ \E e \in JoinErrors \cup JoinNonErrors : joinRejects(e)

SpecProvider == InitProvider /\ [][NextProvider]_vars

InitClient ==
    /\ InitPageSession
    /\ MapIdle
    /\ FetchIdle
    /\ ProviderIdle
    /\ \E itemId, hashEmpty, callback \in BOOLEAN :
          odspClient = ClientNotJoined(itemId, hashEmpty, callback)
    /\ RegistryIdle

NextClient ==
    \/ clientJoin
    \/ \E connected \in BOOLEAN : getContainerResolves(connected)
    \/ \E e \in ContainerErrors : getContainerRejects(e)
    \/ \E attaches \in BOOLEAN : createContainerResolves(attaches)
    \/ \E e \in ContainerErrors : createContainerRejects(e)
    \/ containerConnected
    \/ containerDisconnected

SpecClient == InitClient /\ [][NextClient]_vars

InitRegistry ==
    /\ InitPageSession
    /\ MapIdle
    /\ FetchIdle
    /\ ProviderIdle
    /\ ClientIdle
    /\ \E map \in [Keys -> StateValues \cup {NoValue}] :
          registry = RegistryMounted(map)

NextRegistry ==
    \/ \E k \in Keys, c \in ComponentIds, h \in Handlers :
          registerSharedSetStateAction(k, c, h)
    \/ \E k \in Keys, c \in ComponentIds :
          unregisterSharedSetStateAction(k, c)
    \/ \E k \in Keys, v \in StateValues : updateSharedState(k, v)
    \/ \E k \in Keys : deleteSharedState(k)
    \/ \E k \in Keys, v \in StateValues \cup {NoValue} :
          remoteValueChanged(k, v)
    \/ resultsArrive

SpecRegistry == InitRegistry /\ [][NextRegistry]_vars

NextOffline ==
    \/ \E u \in Users : takeControlByMap(u)
    \/ \E u \in Users : ApplySet(u)
    \/ \E u \in Users : \E removed \in BOOLEAN : goOffline(u, removed)
    \/ Tick

SpecOffline == InitMap /\ [][NextOffline]_vars

\* ------------------------------------------------------------------ claims
ActivePresenters ==
    {u \in Users : joined[u] /\ state(u).type = "activePresenter"}

\* C1 as stated: in every reachable state at most one participant derives
\* activePresenter.
C1_AtMostOnePresenterAlways == Cardinality(ActivePresenters) <= 1

\* C1 amended: whenever every sequenced update has been applied by every
\* connected client, at most one participant derives activePresenter.
C1_AtMostOnePresenterAtRest ==
    Quiescent => Cardinality(ActivePresenters) <= 1

\* A session at rest with a presenter, a participant who left, and the
\* viewer following the user it chose, who went on to present.
C1_Witness ==
    /\ Quiescent
    /\ Cardinality(ActivePresenters) = 1
    /\ \E u \in Users : ~joined[u]
    /\ \E u \in Users : /\ joined[u]
                        /\ state(u).type = "followUser"
                        /\ state(u).followingUserId \in ActivePresenters

C3_NoRequestWhileHeld ==
    (/\ hist.call.op = "takeControl"
     /\ hist.call.held
     /\ hist.call.type = "followPresenter") => ~hist.call.issued

\* C3 amended: takeControl() issues a start-presenting request exactly when
\* the caller's state is defined, the caller is not itself activePresenter
\* and the caller has an allowed role, whoever else presents.
C3_RequestIffGuards ==
    hist.call.op = "takeControl" =>
        (hist.call.issued <=>
            /\ hist.call.type \notin {"undefined", "activePresenter"}
            /\ roles[hist.call.user] \cap allowed # {})

\* B, following presenter A, took control and its request was issued.
C3_Witness ==
    /\ hist.call.op = "takeControl"
    /\ hist.call.user = "B"
    /\ hist.call.type = "followPresenter"
    /\ hist.call.held
    /\ hist.call.issued

\* C4: a takeControl() step of a participant without an allowed role
\* changes nothing: no request is sequenced or queued and every
\* participant's FollowModeState stays as it was.
C4_IneligibleRejected ==
    [][\A u \in Users :
          (takeControl(u) /\ roles[u] \cap allowed = {}) =>
             /\ UNCHANGED <<server, inbox, replica, joined, followSuspended>>
             /\ \A v \in Users : state(v)' = state(v)]_vars

\* The attendee, following the presenter, called takeControl() and was
\* turned down.
C4_Witness ==
    /\ hist.call.op = "takeControl"
    /\ hist.call.user = "C"
    /\ hist.call.type = "followPresenter"
    /\ hist.call.held
    /\ ~hist.call.issued

\* C5 as stated: for every connected user both eligibility computations
\* give roles \cap AllowedRoles # {}, or TRUE when AllowedRoles is empty,
\* and so agree.
C5_EligibilityAgrees ==
    \A u \in Users :
        (elig[u].done /\ joined[u]) =>
            /\ elig[u].presence = (allowed = {} \/ roles[u] \cap allowed # {})
            /\ elig[u].takeControl = (allowed = {} \/ roles[u] \cap allowed # {})
            /\ elig[u].presence = elig[u].takeControl

\* Client u is bound to another user's playback.
Bound(u) == joined[u] /\ state(u).type \in FollowTypes \cup SuspendTypes

\* C6 as stated: play(), pause(), seekTo(t) and setTrack(id) of a
\* participant bound to an authority begin its suspension and neither
\* publish nor change any replicated value.
C6_NothingPublished ==
    [][\A u \in Users :
          (/\ Bound(u)
           /\ \/ play(u)
              \/ pause(u)
              \/ \E t \in Positions : seekTo(u, t)
              \/ \E id \in MediaIds : setTrack(u, id))
          => /\ suspended'[u]
             /\ UNCHANGED <<server, inbox, replica>>]_vars

\* C6 amended: play(), pause() and seekTo(t) of a participant bound to an
\* authority begin the synchronizer's suspension, act on the caller's own
\* player and publish the caller's own FollowData only: the presenter key,
\* every other user's record and every other player stay as they are, and a
\* participant that is not following the caller does not move its player
\* when the caller's update arrives; setTrack(id) of such a participant
\* changes nothing at all.
C6_OwnRecordOnly ==
    [][\A u \in Users :
          Bound(u) =>
             /\ (\/ play(u)
                 \/ pause(u)
                 \/ \E t \in Positions : seekTo(u, t))
                => /\ suspended'[u]
                   /\ server'.presenter = server.presenter
                   /\ \A v \in Users \ {u} :
                         /\ server'.presence[v] = server.presence[v]
                         /\ player'[v] = player[v]
                         /\ suspended'[v] = suspended[v]
                   /\ server'.presence[u].followingUserId
                         = server.presence[u].followingUserId
                   /\ server'.presence[u].stateValue.changed.timestamp = now
                   /\ UNCHANGED <<replica, followSuspended>>
             /\ (\E id \in MediaIds : setTrack(u, id))
                => UNCHANGED <<server, inbox, replica, player, suspended,
                               followSuspended>>
             /\ \A v \in Users :
                   (/\ Deliver(v)
                    /\ Head(inbox[v]).kind = "presence"
                    /\ Head(inbox[v]).user = u
                    /\ Authority(v) # u)
                   => player'[v] = player[v]]_vars

\* The viewer, following presenter A, pressed play: its synchronizer is
\* suspended, its own record is published and has reached A, and A's
\* record and player are as they were.
C6_Witness ==
    /\ state("C").type = "followPresenter"
    /\ suspended["C"]
    /\ ~server.presence["C"].stateValue.paused
    /\ server.presence["C"].stateValue.changed.timestamp > 0
    /\ replica["A"].presence["C"] = server.presence["C"]
    /\ ~player["C"].paused
    /\ server.presence["A"].stateValue = Start
    /\ player["A"] = Player("vid1", TRUE, 0)

ExpectedPosition(data, t) ==
    LET raw == IF data.paused
               THEN data.changed.mediaPosition
               ELSE data.changed.mediaPosition
                    + (t - data.changed.timestamp) \div MsPerSecond
    IN  IF raw < 0 THEN 0 ELSE IF raw > Duration THEN Duration ELSE raw

\* A follower's synchronizer runs a reconciliation in this step: it joins,
\* or applies an update that changes its authority or its authority's data.
Reconciles(u) ==
    /\ \/ Join(u)
       \/ /\ Deliver(u)
          /\ \/ Authority(u)' # Authority(u)
             \/ AuthorityData(u)' # AuthorityData(u)
    /\ ~suspended'[u]
    /\ Authority(u)' # None
    /\ AuthorityData(u)'.mediaId \in MediaIds
    /\ AuthorityData(u)'.changed.defined

C12_PausedSeekRoundTrip ==
    /\ [][\A u \in Users :
            /\ \A p \in Positions :
                  (seekTo(u, p) /\ PlayerPaused(u)) =>
                     server'.presence[u].stateValue =
                        FollowData(selectedMediaId(u), TRUE, Changed(now, p))
            /\ (Reconciles(u) /\ AuthorityData(u)'.paused) =>
                  LET data == AuthorityData(u)'
                  IN  /\ player'[u].paused
                      /\ Abs(player'[u].currentTime - data.changed.mediaPosition)
                            <= DriftTolerance
                      /\ \A k \in 0..MaxClock :
                            TargetPosition(data, k * MsPerSecond)
                               = data.changed.mediaPosition]_vars
    /\ [](\A u \in Users :
            (/\ joined[u]
             /\ ~suspended[u]
             /\ inbox[u] = <<>>
             /\ Authority(u) # None
             /\ AuthorityData(u).changed.defined
             /\ AuthorityData(u).paused)
            => /\ player[u].paused
               /\ Abs(player[u].currentTime
                      - AuthorityData(u).changed.mediaPosition) <= DriftTolerance)

\* The host sought to the end while paused when the clock read one second;
\* the viewer joined a second later and is paused at the end.
C12_Witness ==
    /\ now = 2 * MsPerSecond
    /\ joined[Viewer]
    /\ AuthorityData(Viewer) =
          FollowData("vid1", TRUE, Changed(MsPerSecond, Duration))
    /\ player[Host] = Player("vid1", TRUE, Duration)
    /\ player[Viewer] = Player("vid1", TRUE, Duration)

\* C13: play(), pause() and seekTo(t) of a participant that is its own
\* authority publish a FollowData stamped with the shared-clock time of the
\* call, carrying the player's position for play and pause and t for
\* seekTo, paused false after play, true after pause and as it was after
\* seekTo; the sequenced record of the caller is that FollowData at once,
\* and the value the caller's coordinator reports is that FollowData when
\* the update has come back to it.
C13_GesturePublishes ==
    [][\A u \in Users :
          localUserIsPresenting(u) =>
             LET published == server'.presence[u].stateValue
                 media == selectedMediaId(u)
             IN  /\ play(u) =>
                       published = FollowData(media, FALSE,
                                              Changed(now, player[u].currentTime))
                 /\ pause(u) =>
                       published = FollowData(media, TRUE,
                                              Changed(now, player[u].currentTime))
                 /\ \A t \in Positions :
                       seekTo(u, t) =>
                          /\ published = FollowData(media, player[u].paused,
                                                    Changed(now, t))
                          /\ published.paused = server.presence[u].stateValue.paused
                          /\ player'[u].paused = player[u].paused
                 /\ (/\ Deliver(u)
                     /\ Head(inbox[u]).kind = "presence"
                     /\ Head(inbox[u]).user = u)
                    => state(u)'.value = Head(inbox[u]).rec.stateValue]_vars

\* The host sought to the end while paused and pressed play a second later:
\* its record says "playing from the end since second 2", and so does its
\* coordinator.
C13_Witness ==
    /\ localUserIsPresenting(Host)
    /\ server.presence[Host].stateValue =
          FollowData("vid1", FALSE, Changed(2 * MsPerSecond, Duration))
    /\ state(Host).value = server.presence[Host].stateValue
    /\ player[Host] = Player("vid1", FALSE, Duration)

\* C14 as stated: the changed.timestamp of the record a participant that
\* is its own authority publishes never goes back, and a follower whose
\* synchronizer is not suspended never applies, from the authority it stays
\* bound to, a FollowData with an older changed.timestamp than the one it
\* had applied.
C14_TimestampsMonotone ==
    [][\A u \in Users :
          /\ localUserIsPresenting(u) =>
                server'.presence[u].stateValue.changed.timestamp
                   >= server.presence[u].stateValue.changed.timestamp
          /\ (/\ Deliver(u)
              /\ ~suspended[u]
              /\ Authority(u) # None
              /\ Authority(u)' = Authority(u))
             => AuthorityData(u)'.changed.timestamp
                   >= AuthorityData(u).changed.timestamp]_vars

\* The user a click of client u on w's avatar asks to follow.
ClickTarget(u, w) ==
    IF replica[u].presence[w].followingUserId # None
    THEN replica[u].presence[w].followingUserId
    ELSE w

C16_StopPresentingStaysLocal ==
    [][\A u \in Users :
          /\ (/\ stopPresenting(u)
              /\ state(u).type \notin {"activePresenter", "activeFollowers"})
             => UNCHANGED <<server, inbox, replica, followSuspended>>
          /\ (/\ Deliver(u)
              /\ state(u).type = "activePresenter"
              /\ Head(inbox[u]) = PresenterOp(u, None))
             => state(u)'.type = "local"
          /\ (/\ hist.call.op = "stopPresenting"
              /\ hist.call.user = u
              /\ hist.call.issued
              /\ state(u).type = "local"
              /\ server'.presenter # server.presenter)
             => hist'.call.op = "takeControl"]_vars

\* The types that bind a participant to the presenter.
PresenterBound == {"followPresenter", "suspendFollowPresenter"}

\* C17: a participant bound to the presenter while the presenter key is
\* held by nobody eventually leaves followPresenter / suspendFollowPresenter,
\* or somebody holds the key again: nobody stays bound for ever to a
\* presenter slot that nobody holds.
C17_NoDanglingPresenter ==
    \A u \in Users :
        (server.presenter = None /\ state(u).type \in PresenterBound)
        ~> (server.presenter # None \/ state(u).type \notin PresenterBound)

\* The presenter stopped presenting while the viewer was suspended from it;
\* the viewer, its suspension still on, is on its own.
C17_Witness ==
    /\ Quiescent
    /\ server.presenter = None
    /\ followSuspended[Viewer]
    /\ state(Viewer).type = "local"

\* Client u's state follows the host, who has disconnected.
FollowsDisconnected(u) ==
    /\ joined[u]
    /\ state(u).followingUserId = Host
    /\ ~server.presence[Host].online

UserBound == {"followUser", "suspendFollowUser"}

\* Client u applies its own presence record with the follow target cleared.
DeliverUnfollow(u) ==
    /\ Deliver(u)
    /\ state(u).type \in UserBound
    /\ Head(inbox[u]).kind = "presence"
    /\ Head(inbox[u]).user = u
    /\ Head(inbox[u]).rec.followingUserId = None

\* The presenter as client u sees it, None if nobody connected holds the key.
PresenterSeen(u) ==
    LET p == replica[u].presenter
    IN  IF p # None /\ replica[u].presence[p].online THEN p ELSE None

\* The call of stopFollowing(): from followUser or suspendFollowUser it
\* publishes the caller's record with the follow target cleared and ends
\* the caller's suspension, from any other type it changes nothing.
StopFollowingCall(u) ==
    stopFollowing(u) =>
       IF state(u).type \in UserBound
       THEN /\ server'.presence[u] =
                   [replica[u].presence[u] EXCEPT !.followingUserId = None]
            /\ Len(inbox'[u]) = Len(inbox[u]) + 1
            /\ ~followSuspended'[u]
            /\ UNCHANGED <<replica, player, suspended>>
       ELSE UNCHANGED <<server, inbox, replica, followSuspended,
                        player, suspended>>

C20_PresenterFollowsNobody ==
    \A u \in Users :
        (joined[u] /\ state(u).type = "activePresenter")
        => state(u).followingUserId = None

\* A follower's synchronizer, not suspended, receives FollowData of its
\* authority that names a media other than the loaded one.
ReceivesOtherTrack(u) ==
    /\ Deliver(u)
    /\ \/ Authority(u)' # Authority(u)
       \/ AuthorityData(u)' # AuthorityData(u)
    /\ ~suspended[u]
    /\ Authority(u)' # None
    /\ AuthorityData(u)'.mediaId \in MediaIds
    /\ AuthorityData(u)'.mediaId # player[u].src

SomeAuthority ==
    \E v \in Users : joined[v] /\ state(v).type = "activePresenter"

\* C22: a start-presenting request that no takeControl() call issued comes
\* from the share initiator, whose coordinator is initialized and whose type
\* is local; and once the share initiator's coordinator is initialized and
\* its type is local, eventually some participant is activePresenter.
C22_InitiatorTakesControl ==
    /\ [][\A u \in Users :
            /\ AutoStartPresenting(u) =>
                  /\ initiator = u
                  /\ joined[u]
                  /\ state(u).type = "local"
            /\ (\E i \in 1..Len(inbox'[u]) :
                    /\ i > Len(inbox[u])
                    /\ inbox'[u][i] = PresenterOp(u, u)
                    /\ ~takeControl(u)) =>
                  /\ initiator = u
                  /\ state(u).type = "local"]_vars
    /\ \A u \in Users :
          (initiator = u /\ joined[u] /\ state(u).type = "local")
          ~> SomeAuthority

\* The share initiator presents at rest, and nobody called takeControl():
\* the other eligible user is the initiator's follower.
C22_Witness ==
    /\ initiator = Host
    /\ state(Host).type = "activePresenter"
    /\ state(Follower).type = "followPresenter"
    /\ state(Viewer).type = "followPresenter"
    /\ Quiescent

\* C23: takeControl() of a client whose coordinator is not initialized, and
\* play(), pause(), seekTo() and setTrack() of a client whose coordinator or
\* synchronizer does not exist yet, change no replicated value, no
\* suspension and no player.
C23_NoOpsUntilReady ==
    [][\A u \in Users :
          /\ (~joined[u] /\ takeControl(u))
                => UNCHANGED <<server, inbox, replica, followSuspended,
                               suspended, player>>
          /\ (/\ ~(joined[u] /\ mediaSessionStarted[u])
              /\ \/ play(u)
                 \/ pause(u)
                 \/ \E t \in Positions : seekTo(u, t)
                 \/ \E id \in MediaIds : setTrack(u, id))
                => UNCHANGED <<server, inbox, replica, followSuspended,
                               suspended, player>>]_vars

\* Client u begins or ends a suspension, the synchronizer's or the
\* coordinator's.
SuspensionCall(u) ==
    \/ mediaSynchronizerBeginSuspension(u)
    \/ endSuspension(u)
    \/ liveFollowModeBeginSuspension(u)
    \/ liveFollowModeEndSuspension(u)

DerivedType(v, u) ==
    LET r == replica[v]
        f == r.presence[u].followingUserId
        p == r.presenter
    IN  IF ~r.presence[u].online THEN "undefined"
        ELSE IF f # None /\ f # u /\ r.presence[f].online THEN "followUser"
        ELSE IF p # None /\ r.presence[p].online
        THEN IF p = u THEN "activePresenter" ELSE "followPresenter"
        ELSE IF getUserFollowers(v, u) # {} THEN "activeFollowers"
        ELSE "local"

\* The suspended variant of a type that has one.
SuspendedVariant(type) ==
    IF type = "followPresenter" THEN "suspendFollowPresenter"
    ELSE IF type = "followUser" THEN "suspendFollowUser"
    ELSE type

\* C25: whatever requests overlap, every connected client's applied values
\* followed by its pending updates give the sequenced values: each request
\* is applied once, in the sequenced order, and none after a later one; and
\* when every update is delivered every client holds the latest sequenced
\* values, derives the same type for every participant from them, and each
\* participant's own type is that type or its suspended variant.
C25_LatestValueDecides ==
    /\ \A u \in Users :
          joined[u] => ApplyAll(replica[u], inbox[u]) = server
    /\ Quiescent =>
          \A u, v \in Users :
             (joined[u] /\ joined[v]) =>
                /\ replica[v] = server
                /\ DerivedType(v, u) = DerivedType(u, u)
                /\ state(u).type = IF followSuspended[u]
                                   THEN SuspendedVariant(DerivedType(u, u))
                                   ELSE DerivedType(u, u)

\* B stopped following and took control before the first request came
\* back; with everything delivered B presents and the others follow it.
C25_Witness ==
    /\ Quiescent
    /\ hist.call.op = "takeControl"
    /\ hist.call.user = Follower
    /\ hist.call.type = "followUser"
    /\ hist.call.issued
    /\ state(Follower).type = "activePresenter"
    /\ state(Host).type = "followPresenter"
    /\ state(Viewer).type = "followPresenter"

\* clientRef.current.canSendBackgroundUpdates as the effect of useTakeControl
\* leaves it with isFullyLargeMeetingOptimized set: re-assigned whenever
\* localUserIsPresenting or isShareInitiator changes.
canSendBackgroundUpdates(u) == localUserIsPresenting(u) \/ initiator = u

\* C26: with the large-meeting optimization on, whenever some client is
\* connected, some connected client has canSendBackgroundUpdates = true.
C26_SomeoneSendsBackgroundUpdates ==
    (\E u \in Users : joined[u]) =>
        \E u \in Users : joined[u] /\ canSendBackgroundUpdates(u)

\* The group operations of the synchronizer.
GroupOperations == {"play", "pause", "seekTo", "setTrack"}

\* C27: a participant whose type is followPresenter, followUser,
\* suspendFollowPresenter or suspendFollowUser, or whose state is undefined,
\* is view-only, and no gesture of such a participant invokes the
\* synchronizer's play, pause, seekTo or setTrack: the caller of every group
\* operation is activePresenter, activeFollowers or local.
C27_FollowersAreViewOnly ==
    /\ \A u \in Users :
          state(u).type \in FollowTypes \cup SuspendTypes \cup {"undefined"}
             => viewOnly(u)
    /\ hist.call.op \in GroupOperations =>
          hist.call.type \in {"activePresenter", "activeFollowers", "local"}

\* The viewer, following the presenter, used a control of its player: no
\* group operation was invoked.
C27_Witness ==
    /\ hist.call.user = Viewer
    /\ hist.call.type = "followPresenter"
    /\ hist.call.op = "none"
    /\ viewOnly(Viewer)
    /\ suspended[Viewer]

\* C28: the synchronizer's suspended flag and the coordinator's type agree
\* at every connected participant: suspended is true if and only if the
\* type is suspendFollowPresenter or suspendFollowUser.
C28_SuspensionAgrees ==
    \A u \in Users :
       joined[u] => (suspended[u] <=> state(u).type \in SuspendTypes)

\* C29: a participant without an allowed role never issues a
\* start-presenting request, by takeControl() or by the share initiator's
\* automatic take-control, and never derives activePresenter.
C29_OnlyEligiblePresent ==
    /\ (hist.call.op \in {"takeControl", "autoStart"} /\ hist.call.issued)
          => localUserIsEligiblePresenter(hist.call.user)
    /\ \A u \in Users :
          state(u).type = "activePresenter" => localUserIsEligiblePresenter(u)

\* The key of client u's media session: the thread, the user its state
\* follows or "default", and the media suffix.
ThreadId == "thread"

MediaSessionKey(u) ==
    <<ThreadId,
      IF state(u).followingUserId = None
      THEN "default"
      ELSE state(u).followingUserId,
      "media">>

\* C30: a follower and the authority it is bound to use the same
\* media-session key, and participants bound to different authorities use
\* different keys.
C30_SameKeyAsAuthority ==
    /\ \A u \in Users :
          (joined[u] /\ Authority(u) # None /\ joined[Authority(u)]) =>
             MediaSessionKey(u) = MediaSessionKey(Authority(u))
    /\ \A u, v \in Users :
          (/\ joined[u] /\ joined[v]
           /\ Authority(u) # None /\ Authority(v) # None
           /\ Authority(u) # Authority(v)) =>
             MediaSessionKey(u) # MediaSessionKey(v)

\* C31: every FollowData published with paused = false carries a defined
\* changed record: no user's sequenced FollowData is playing without one.
C31_PlayingHasChanged ==
    \A u \in Users :
       ~server.presence[u].stateValue.paused
          => server.presence[u].stateValue.changed.defined

\* C32: a click of the local user on another user's avatar that takes
\* effect makes the local user follow that user's own follow target if it
\* has one, otherwise that user, and the FollowData the local user
\* publishes as its own is the FollowData of the user it ends up following.
C32_AdoptsTargetData ==
    [][\A u, w \in Users :
          (followUser(u, w) /\ followUserOps(u, ClickTarget(u, w)) # <<>>) =>
             /\ server'.presence[u].followingUserId = ClickTarget(u, w)
             /\ server'.presence[u].stateValue
                   = replica[u].presence[ClickTarget(u, w)].stateValue]_vars

\* u's sequenced record names v as its follow target, both connected.
Follows(u, v) ==
    /\ server.presence[u].online
    /\ server.presence[v].online
    /\ server.presence[u].followingUserId = v

\* C33: no participant follows itself and no two participants follow each
\* other.
C33_NoFollowCycle ==
    \A u, v \in Users : ~(Follows(u, v) /\ Follows(v, u))

\* The record of user u in the list.
UserOf(u) == CHOOSE r \in {users[i] : i \in DOMAIN users} : r.userId = u

\* User a sorts no later than user b: a later time in control, or the same
\* entry and a join that is no later.
SortsNoLater(h, a, b) ==
    \/ OrZero(h[a.userId]) > OrZero(h[b.userId])
    \/ h[a.userId] = h[b.userId] /\ a.joinedTimestamp <= b.joinedTimestamp

\* C34: in the take-control map variant the presenting user is a function of
\* the map and the user list, namely a listed user with the greatest
\* last-in-control timestamp and, among those (nobody having taken control
\* included), the earliest joinedTimestamp; exactly one listed user has
\* localUserIsPresenting = true; and a user whose applied takeControl write
\* is later than every other listed user's entry is the presenter on every
\* client.
C34_PresenterByMap ==
    users # <<>> =>
       LET p == presentingUser
       IN  /\ p.userId \in Listed
           /\ \A i \in DOMAIN users : SortsNoLater(history, p, users[i])
           /\ \A u \in Users : localUserIsPresentingByMap(u) <=> u = p.userId
           /\ \A u \in Listed :
                 (/\ history[u] # NoEntry
                  /\ \A v \in Listed \ {u} : OrZero(history[v]) < history[u])
                    => p.userId = u

\* C34 as stated: whenever an eligible user's takeControl write is applied,
\* that user is the presenter.
C34_WriterPresents ==
    [][\A u \in Users : ApplySet(u) => presentingUser'.userId = u]_vars

\* A write has been applied that was stamped later than every other entry,
\* its writer is not the earliest joiner, and it presents.
C34_Witness ==
    /\ \E u \in Listed :
          /\ history[u] # NoEntry
          /\ presentingUser.userId = u
          /\ \E v \in Listed \ {u} :
                /\ history[v] # NoEntry
                /\ history[v] < history[u]
                /\ UserOf(v).joinedTimestamp < UserOf(u).joinedTimestamp

\* C35: in the take-control map variant the computed presenting user is a
\* currently online user whenever some listed user is online, so that once
\* the last user who took control has gone offline an online user presents.
C35_PresenterOnline ==
    Online # {} => presentingUser.state = "online"

\* C36: getWithRetryForTokenRefresh calls get at most twice and ends; the
\* first call has refresh = false and nothing else; there is a second call
\* only if the first promise rejected with authorizationError,
\* incorrectServerResponse, fetchTokenError or the repeat flag, and that
\* call has refresh = true, previousError the first error and, for
\* authorizationError, its claims and tenantId; any other first error is the
\* result without a second call, and the second call's outcome is the result.
C36_RetryOnce ==
    /\ <>(tokenFetch.pc = "done")
    /\ [](/\ Len(tokenFetch.calls) <= 2
          /\ tokenFetch.pc # "idle" =>
                tokenFetch.calls[1] = TokenFetchOptions(FALSE, NoError, None, None)
          /\ Len(tokenFetch.calls) = 2 =>
                LET e == tokenFetch.first.error
                    second == tokenFetch.calls[2]
                IN  /\ tokenFetch.first.kind = "rejected"
                    /\ \/ e.errorType \in {"authorizationError",
                                            "incorrectServerResponse",
                                            "fetchTokenError"}
                       \/ e.repeat
                    /\ second.refresh
                    /\ second.previousError = e
                    /\ e.errorType = "authorizationError" =>
                          /\ second.claims = e.claims
                          /\ second.tenantId = e.tenantId
          /\ (tokenFetch.pc = "done" /\ Len(tokenFetch.calls) = 1) =>
                \/ tokenFetch.result = tokenFetch.first
                \/ /\ tokenFetch.first.kind = "thrown"
                   /\ tokenFetch.result.kind = "rejected"
                   /\ tokenFetch.result.error = tokenFetch.first.error
                \/ /\ tokenFetch.first.error = Nullish
                   /\ tokenFetch.result.kind = "rejected")
    /\ [][\A o \in Outcomes :
             secondGetSettles(o) =>
                /\ tokenFetch'.pc = "done"
                /\ tokenFetch'.calls = tokenFetch.calls
                /\ tokenFetch'.result.kind = "resolved" <=> o.kind = "resolved"
                /\ tokenFetch'.result.error = o.error]_vars

\* A first call rejected with authorizationError was retried with its claims
\* and tenantId, and the retry was rejected with an error that would have
\* been retried: that error is the result.
C36_Witness ==
    /\ tokenFetch.pc = "done"
    /\ Len(tokenFetch.calls) = 2
    /\ tokenFetch.first.error.errorType = "authorizationError"
    /\ tokenFetch.calls[2].claims = "claims"
    /\ tokenFetch.result.kind = "rejected"
    /\ tokenFetch.result.error.errorType = "fetchTokenError"

\* C37: however often the load effect runs, the provider calls join at most
\* once; if that join fails, joinError is an Error, results stay undefined
\* (joined = false) and no later run of the effect calls join again.
C37_JoinOnce ==
    /\ [](/\ provider.joinCalls <= 1
          /\ provider.pending <= 1
          /\ provider.rejected # None =>
                /\ provider.joinError # None
                /\ InstanceOfError(provider.joinError)
                /\ provider.results = None
                /\ ~ProviderJoined)
    /\ [][(loadEffect /\ provider.rejected # None) =>
             provider'.joinCalls = provider.joinCalls]_vars

\* The join was rejected with something that is not an Error, and the effect
\* has run again since with joinOnLoad set.
C37_Witness ==
    /\ provider.rejected \in JoinNonErrors
    /\ provider.joinError = UnknownJoinError
    /\ provider.joinOnLoad
    /\ provider.effectRuns > provider.settledAtRun
    /\ provider.joinCalls = 1

\* C38: once LiveShareOdspClient.join() has resolved, its created flag is
\* true exactly when this call created the container.
C38_CreatedIffCreated ==
    odspClient.pc = "resolved" =>
       (odspClient.created <=> odspClient.createdByCall)

\* C39: once the join results exist, every handler registered for a key
\* that has a value in the shared map was last called with that value (the
\* value present when it registered included), and no handler has been
\* called after it was unregistered or its key deleted.
C39_HandlersCurrent ==
    /\ ~registry.calledAfterRemoval
    /\ registry.results =>
          \A k \in Keys : \A h \in RegisteredHandlers(registry, k) :
             registry.stateMap[k] # NoValue =>
                registry.lastCalled[k][h] = registry.stateMap[k]

====
